---- MODULE Spec2Model ----
(***************************************************************************)
(* Model of the alphaflow-engine task queue, task store, task dispatcher   *)
(* and task runner (backend/alphaflow-engine/{queue,store}).               *)
(***************************************************************************)
EXTENDS Integers, Sequences, FiniteSets, TLC

\* ------------------------------------------------------------------ bounds
MaxTasks == 4       \* ids pushed in one behaviour of the queue-only specification
MaxAdd == 2         \* tasks handed to add_task in one behaviour of the dispatcher

\* ------------------------------------------------------------ basic types
HandlerIds == {"A", "B"}

Background == "Background"
UserInteractive == "UserInteractive"
QualityOfService == {Background, UserInteractive}

TaskState == {"Pending", "Processing", "Done", "Failure", "Cancel", "Timeout"}

None == <<>>
Some(x) == <<x>>

\* Ordering values of std::cmp::Ordering
Less == "Less"
Equal == "Equal"
Greater == "Greater"

IntCmp(a, b) == IF a < b THEN Less ELSE IF a > b THEN Greater ELSE Equal

\* impl Ord for QualityOfService
QosCmp(l, r) ==
    IF l = r THEN Equal
    ELSE IF l = UserInteractive THEN Greater ELSE Less

\* impl Ord for PendingTask: QoS first, then the id as written
PendingTaskCmp(l, r) ==
    IF QosCmp(l.qos, r.qos) = Equal THEN IntCmp(l.id, r.id)
    ELSE QosCmp(l.qos, r.qos)

\* BinaryHeap<PendingTask>::peek of a TaskList: its greatest element
Peek(tasks) ==
    IF tasks = {} THEN None
    ELSE Some(CHOOSE t \in tasks :
                \A u \in tasks : PendingTaskCmp(u, t) # Greater)

\* impl Ord for TaskList: compare by the heads, an empty list is least
TaskListCmp(l, r) ==
    IF Peek(l) = None /\ Peek(r) = None THEN Equal
    ELSE IF Peek(l) = None THEN Less
    ELSE IF Peek(r) = None THEN Greater
    ELSE PendingTaskCmp(Peek(l)[1], Peek(r)[1])

\* ------------------------------------------- std BinaryHeap over TaskLists
\* data is the heap's vector (0-based positions, data[p + 1] in TLA+); its
\* elements are references to TaskLists, named by handler id, and lists gives
\* the current contents of every referenced list.
Swap(data, i, j) ==
    [data EXCEPT ![i + 1] = data[j + 1], ![j + 1] = data[i + 1]]

ListLe(lists, a, b) == TaskListCmp(lists[a], lists[b]) # Greater

RECURSIVE sift_up(_, _, _, _)
sift_up(data, start, pos, lists) ==
    IF pos > start
    THEN LET parent == (pos - 1) \div 2
         IN  IF ListLe(lists, data[pos + 1], data[parent + 1])
             THEN data
             ELSE sift_up(Swap(data, pos, parent), start, parent, lists)
    ELSE data

RECURSIVE sift_down_loop(_, _, _, _)
sift_down_loop(data, pos, end, lists) ==
    LET child == 2 * pos + 1
    IN  IF end >= 2 /\ child <= end - 2
        THEN LET c == IF ListLe(lists, data[child + 1], data[child + 2])
                      THEN child + 1 ELSE child
             IN  sift_down_loop(Swap(data, pos, c), c, end, lists)
        ELSE IF child = end - 1
             THEN <<Swap(data, pos, child), child>>
             ELSE <<data, pos>>

sift_down_to_bottom(data, pos, lists) ==
    LET r == sift_down_loop(data, pos, Len(data), lists)
    IN  sift_up(r[1], pos, r[2], lists)

HeapPush(data, item, lists) ==
    sift_up(Append(data, item), 0, Len(data), lists)

\* returns <<popped item (Option), remaining vector>>
HeapPop(data, lists) ==
    IF data = <<>> THEN <<None, data>>
    ELSE LET last == data[Len(data)]
             rest == SubSeq(data, 1, Len(data) - 1)
         IN  IF rest = <<>> THEN <<Some(last), rest>>
             ELSE <<Some(rest[1]),
                    sift_down_to_bottom([rest EXCEPT ![1] = last], 0, lists)>>

\* --------------------------------------------------------------- TaskQueue
\* A TaskQueue value: index_tasks is the key set of the index map, queue the
\* heap vector, lists the contents of the TaskList of each handler id.
EmptyLists == [h \in HandlerIds |-> {}]

NewTaskQueue == [index_tasks |-> {}, queue |-> <<>>, lists |-> EmptyLists]

\* TaskQueue::push
QueuePush(q, task) ==
    IF ~task.content THEN q
    ELSE LET pending_task == [qos |-> task.qos, id |-> task.id]
             h == task.handler_id
             pushed == [q.lists EXCEPT ![h] = @ \cup {pending_task}]
         IN  IF h \in q.index_tasks
             THEN [q EXCEPT !.lists = pushed]
             ELSE LET fresh == [q.lists EXCEPT ![h] = {pending_task}]
                  IN  [index_tasks |-> q.index_tasks \cup {h},
                       queue |-> HeapPush(q.queue, h, fresh),
                       lists |-> fresh]

\* TaskQueue::clear
QueueClear(q) == NewTaskQueue

\* |list| list.pop(): removes the greatest PendingTask of the list
ListPop(tasks) ==
    IF tasks = {} THEN <<None, tasks>>
    ELSE <<Peek(tasks), tasks \ {Peek(tasks)[1]}>>

\* QueueMutHead with the index entry of an emptied list left in place
QueueMutHeadKeepIndex(q) ==
    LET hp == HeapPop(q.queue, q.lists)
    IN  IF hp[1] = None THEN <<None, None, q>>
        ELSE LET head == hp[1][1]
                 lp == ListPop(q.lists[head])
                 after == [q.lists EXCEPT ![head] = lp[2]]
             IN  IF lp[2] # {}
                 THEN <<lp[1], Some(head),
                        [index_tasks |-> q.index_tasks,
                         queue |-> HeapPush(hp[2], head, after),
                         lists |-> after]>>
                 ELSE <<lp[1], Some(head),
                        [index_tasks |-> q.index_tasks,
                         queue |-> hp[2],
                         lists |-> after]>>

\* TaskQueue::mut_head(|list| list.pop()):
\* returns <<result (Option), handler id of the head list (Option), queue>>
QueueMutHead(q) ==
    LET hp == HeapPop(q.queue, q.lists)
    IN  IF hp[1] = None THEN <<None, None, q>>
        ELSE LET head == hp[1][1]
                 lp == ListPop(q.lists[head])
                 after == [q.lists EXCEPT ![head] = lp[2]]
             IN  IF lp[2] # {}
                 THEN <<lp[1], Some(head),
                        [index_tasks |-> q.index_tasks,
                         queue |-> HeapPush(hp[2], head, after),
                         lists |-> after]>>
                 ELSE <<lp[1], Some(head),
                        [index_tasks |-> q.index_tasks \ {head},
                         queue |-> hp[2],
                         lists |-> after]>>

\* ---------------------------------------------------- u32 task ids
\* AtomicU32 (TaskId = u32) is kept as two 16-bit halves <<high, low>>
HalfModulus == 65536

\* u32::MAX - 1
NearMax == <<HalfModulus - 1, HalfModulus - 2>>

\* AtomicU32::fetch_add(1, SeqCst): the value stored, wrapping at 2^32
FetchAdd(c) ==
    IF c[2] + 1 < HalfModulus THEN <<c[1], c[2] + 1>>
    ELSE <<(c[1] + 1) % HalfModulus, 0>>

\* Ord for u32
U32Less(a, b) == a[1] < b[1] \/ (a[1] = b[1] /\ a[2] < b[2])

\* ---------------------------------------------------------------- state
VARIABLES
    index_tasks,      \* TaskQueue.index_tasks (keys)
    queue,            \* TaskQueue.queue (heap vector of list references)
    lists,            \* contents of the TaskLists
    task_id_counter,  \* TaskStore.task_id_counter, its low 16 bits
    counter_hi,       \* TaskStore.task_id_counter, its high 16 bits
    store,            \* TaskStore.tasks: id -> Task
    handlers,         \* TaskDispatcher.handlers (registered node names)
    notifier,         \* watch channel: latest value, unseen by the receiver
    inflight,         \* process_next_task suspended in node.execute: its task
    runner,           \* position of TaskRunner::run
    results,          \* observed: per task id, the TaskResult states sent
    executed,         \* observed: id -> outcome of node.execute
    cancel_called,    \* observed: ids cancel_task found in the store
    accepted,         \* observed: ids add_task pushed and inserted
    taken,            \* observed: ids process_next_task removed from the store
    stop_called,      \* observed: stop() ran while the runner loop was running
    unknown,          \* observed: ids whose handler lookup found no node
    drained,          \* observed: ids TaskStore::clear took out of the store
    ids,              \* observed: values returned by next_task_id, in order
    wf_nodes,         \* Workflow.nodes: node id -> WorkflowNode
    conn_src,         \* Workflow.connections_by_source
    conn_dst,         \* Workflow.connections_by_destination
    wf_mapping,       \* observed: nodes defined with an input_mapping
    run,              \* Workflow::run: position, BFS queue, results, return
    exec_log,         \* observed: the calls of execute made by Workflow::run
    eval,             \* a call of a pure function: its input and its results
    graph,            \* DirectedGraph.graph: node weights and edges by index
    node_indices,     \* DirectedGraph.node_indices: name -> NodeIndex
    topo,             \* observed: the last return of topological_sort
    bridged,          \* observed: names just removed from between a parent and a child
    pushed,           \* observed: (handler, qos) of every queue.push, by id
    popped            \* observed: results of queue.mut_head(pop), in order

qvars == <<index_tasks, queue, lists>>
obs == <<pushed, popped>>
dgvars == <<graph, node_indices, topo, bridged>>
wfvars == <<wf_nodes, conn_src, conn_dst, wf_mapping, run, exec_log, dgvars>>

vars == <<index_tasks, queue, lists, task_id_counter, store, handlers,
          notifier, inflight, runner, results, executed, cancel_called,
          accepted, taken, stop_called, unknown, drained, ids, pushed, popped,
          counter_hi, wfvars, eval>>

dvars == <<store, handlers, notifier, inflight, runner, results, executed,
           cancel_called, accepted, taken, stop_called, unknown, drained>>

\* what neither the queue nor the dispatcher touches
other == <<ids, counter_hi, wfvars, eval>>

TheQueue == [index_tasks |-> index_tasks, queue |-> queue, lists |-> lists]

SetQueue(q) ==
    /\ index_tasks' = q.index_tasks
    /\ queue' = q.queue
    /\ lists' = q.lists

\* Task::new(handler_id, id, content, qos); content is kept as its presence
NewTask(h, id, qos) ==
    [id |-> id, handler_id |-> h, content |-> TRUE, qos |-> qos,
     state |-> "Pending", ret |-> TRUE]

\* Workflow::new
WorkflowInit ==
    /\ wf_nodes = <<>>
    /\ conn_src = <<>>
    /\ conn_dst = <<>>
    /\ wf_mapping = {}
    /\ run = [pc |-> "idle", queue |-> <<>>, results |-> <<>>, ret |-> None]
    /\ exec_log = <<>>
    /\ graph = [nodes |-> <<>>, edges |-> <<>>]
    /\ node_indices = <<>>
    /\ topo = None
    /\ bridged = {}

\* TaskDispatcher::new / TaskQueue::new, and TaskStore::new but for its counter
InitButCounter ==
    /\ index_tasks = {}
    /\ queue = <<>>
    /\ lists = EmptyLists
    /\ store = <<>>
    /\ handlers = {}
    /\ notifier = [value |-> FALSE, changed |-> FALSE]
    /\ inflight = None
    /\ runner = "new"
    /\ results = <<>>
    /\ executed = <<>>
    /\ cancel_called = {}
    /\ accepted = {}
    /\ taken = {}
    /\ stop_called = FALSE
    /\ unknown = {}
    /\ drained = {}
    /\ ids = <<>>
    /\ pushed = <<>>
    /\ popped = <<>>
    /\ WorkflowInit

\* TaskStore::new: task_id_counter: AtomicU32::new(1)
InitButEval ==
    /\ InitButCounter
    /\ counter_hi = 0
    /\ task_id_counter = 1

Init ==
    /\ InitButEval
    /\ eval = None

\* ------------------------------------------------- queue-only operations
\* queue.push(&task) for a task with the next id, its content possibly taken
Push(h, qos, content) ==
    /\ task_id_counter <= MaxTasks
    /\ LET task == [NewTask(h, task_id_counter, qos) EXCEPT !.content = content]
       IN  /\ SetQueue(QueuePush(TheQueue, task))
           /\ pushed' = Append(pushed, [handler |-> h, qos |-> qos,
                                        content |-> content])
    /\ task_id_counter' = task_id_counter + 1
    /\ UNCHANGED <<popped, dvars, other>>

\* queue.mut_head(|list| list.pop())
MutHead ==
    /\ LET r == QueueMutHead(TheQueue)
       IN  /\ SetQueue(r[3])
           /\ popped' = IF r[1] = None THEN popped
                        ELSE Append(popped,
                                [handler |-> r[2][1], qos |-> r[1][1].qos,
                                 id |-> r[1][1].id, at |-> Len(pushed)])
    /\ UNCHANGED <<task_id_counter, pushed, dvars, other>>

\* queue.clear()
Clear ==
    /\ SetQueue(QueueClear(TheQueue))
    /\ UNCHANGED <<task_id_counter, pushed, popped, dvars, other>>

QueueNext ==
    \/ \E h \in HandlerIds, qos \in QualityOfService : Push(h, qos, TRUE)
    \/ \E h \in HandlerIds : Push(h, Background, FALSE)
    \/ MutHead
    \/ Clear

QueueSpec == Init /\ [][QueueNext]_vars

\* -------------------------------------------------------------- TaskStore
\* functions are kept as id -> value with the ids as domain
Remove(f, k) == [x \in DOMAIN f \ {k} |-> f[x]]

Insert(f, k, v) == [x \in DOMAIN f \cup {k} |-> IF x = k THEN v ELSE f[x]]

\* is_done taken to mean "terminal"
is_done_terminal(state) == state \in {"Done", "Failure", "Cancel", "Timeout"}

\* TaskState::is_done
is_done(state) == state = "Done"

\* is_cancel matching the wrong variant
is_cancel_as_done(state) == state = "Done"

\* TaskState::is_cancel
is_cancel(state) == state = "Cancel"

\* ret.send(task.into()): one TaskResult with the task's state on its channel
\* (the call is recorded whether or not the caller still holds the receiver)
Send(res, task) == [res EXCEPT ![task.id] = Append(@, task.state)]

\* TaskStore::clear that drops the tasks without reporting them
StoreClearNoSend(st, res) == res

\* TaskStore::clear: drains the map; every task that still has its sender is
\* set to Cancel and reported.  Returns the results after the sends.
RECURSIVE StoreClearResults(_, _)
StoreClearResults(st, res) ==
    IF DOMAIN st = {} THEN res
    ELSE LET id == CHOOSE x \in DOMAIN st : TRUE
             task == st[id]
         IN  StoreClearResults(Remove(st, id),
                IF task.ret
                THEN Send(res, [task EXCEPT !.state = "Cancel"])
                ELSE res)

\* remove_task that only reads the task
StoreRemoveTaskKeep(st, id) == st

\* TaskStore::remove_task
StoreRemoveTask(st, id) == Remove(st, id)

\* the unknown-handler branch reporting the task as failed
UnknownHandlerFailure(task) == [task EXCEPT !.state = "Failure"]

\* process_next_task, handler not found: task.set_state(TaskState::Cancel)
UnknownHandler(task) == [task EXCEPT !.state = "Cancel"]

\* process_next_task handing the task to execute without marking it
StartProcessingPending(task) == [task EXCEPT !.content = FALSE, !.ret = FALSE]

\* process_next_task, handler found: content and ret are taken (lines 79, 89)
\* and task.set_state(TaskState::Processing)
StartProcessing(task) ==
    [task EXCEPT !.state = "Processing", !.content = FALSE, !.ret = FALSE]

\* TaskDispatcher::notify: notifier.send(false)
Notify == notifier' = [value |-> FALSE, changed |-> TRUE]

\* --------------------------------------------------------- TaskDispatcher
\* methods running whatever process_next_task is doing
UnlockedAlways == TRUE

\* Every method takes the dispatcher by &mut self (callers that share it hold
\* the RwLock write guard), so none runs while process_next_task is suspended
\* in node.execute.
Unlocked == inflight = None

\* TaskDispatcher::register_node
RegisterNode(h) ==
    /\ Unlocked
    /\ handlers' = handlers \cup {h}
    /\ UNCHANGED <<qvars, task_id_counter, store, notifier, inflight, runner,
                   results, executed, cancel_called, accepted, taken,
                   stop_called, obs, other>>
    /\ UNCHANGED <<unknown, drained>>

\* TaskDispatcher::unregister_node
UnregisterNode(h) ==
    /\ Unlocked
    /\ handlers' = handlers \ {h}
    /\ UNCHANGED <<qvars, task_id_counter, store, notifier, inflight, runner,
                   results, executed, cancel_called, accepted, taken,
                   stop_called, obs, other>>
    /\ UNCHANGED <<unknown, drained>>

\* let id = next_task_id(); let mut task = Task::new(h, id, content, qos);
\* optionally task.set_state(state) / task.content.take(); add_task(task)
AddTask(h, qos, state, content) ==
    /\ Unlocked
    /\ task_id_counter <= MaxAdd
    /\ LET task == [NewTask(h, task_id_counter, qos)
                        EXCEPT !.state = state, !.content = content]
       IN  IF is_done(task.state)
           THEN UNCHANGED <<qvars, store, notifier, accepted>>
           ELSE /\ SetQueue(QueuePush(TheQueue, task))
                /\ store' = Insert(store, task.id, task)
                /\ Notify
                /\ accepted' = accepted \cup {task.id}
    /\ task_id_counter' = task_id_counter + 1
    /\ results' = Append(results, <<>>)
    /\ UNCHANGED <<handlers, inflight, runner, executed, cancel_called,
                   taken, stop_called, obs, other>>
    /\ UNCHANGED <<unknown, drained>>

\* cancel_task taking the task out of the store
CancelInStoreRemove(st, id) == Remove(st, id)

\* if let Some(task) = self.store.mut_task(&task_id)
\*     { task.set_state(TaskState::Cancel) }
CancelInStore(st, id) ==
    IF id \in DOMAIN st THEN [st EXCEPT ![id].state = "Cancel"] ELSE st

\* TaskDispatcher::cancel_task
CancelTask(id) ==
    /\ Unlocked
    /\ store' = CancelInStore(store, id)
    /\ cancel_called' = IF id \in DOMAIN store THEN cancel_called \cup {id}
                        ELSE cancel_called
    /\ UNCHANGED <<qvars, task_id_counter, handlers, notifier, inflight,
                   runner, results, executed, accepted, taken, stop_called,
                   obs, other>>
    /\ UNCHANGED <<unknown, drained>>

\* TaskDispatcher::clear_task
ClearTask ==
    /\ Unlocked
    /\ results' = StoreClearResults(store, results)
    /\ drained' = drained \cup DOMAIN store
    /\ store' = <<>>
    /\ UNCHANGED <<qvars, task_id_counter, handlers, notifier, inflight,
                   runner, executed, cancel_called, accepted, taken,
                   stop_called, obs, other>>
    /\ UNCHANGED <<unknown>>

\* TaskDispatcher::stop
Stop ==
    /\ Unlocked
    /\ notifier' = [value |-> TRUE, changed |-> TRUE]
    /\ SetQueue(QueueClear(TheQueue))
    /\ results' = StoreClearResults(store, results)
    /\ drained' = drained \cup DOMAIN store
    /\ store' = <<>>
    /\ stop_called' = (stop_called \/ runner \notin {"new", "exited"})
    /\ UNCHANGED <<task_id_counter, handlers, inflight, runner, executed,
                   cancel_called, accepted, taken, obs, other>>
    /\ UNCHANGED <<unknown>>

\* TaskDispatcher::process_next_task up to the await of node.execute
ProcessNextTaskBody ==
    /\ Unlocked
    /\ LET r == QueueMutHead(TheQueue)
       IN
       /\ SetQueue(r[3])
       /\ IF r[1] = None
          THEN UNCHANGED <<store, results, notifier, inflight, taken, unknown>>
          ELSE LET id == r[1][1].id IN
          IF id \notin DOMAIN store
          THEN UNCHANGED <<store, results, notifier, inflight, taken, unknown>>
          ELSE LET task == store[id] IN
          /\ store' = StoreRemoveTask(store, id)
          /\ taken' = taken \cup {id}
          /\ IF ~task.ret
             THEN UNCHANGED <<results, notifier, inflight, unknown>>
             ELSE IF is_cancel(task.state)
             THEN /\ results' = Send(results, task)
                  /\ Notify
                  /\ UNCHANGED <<inflight, unknown>>
             ELSE IF ~task.content
             THEN UNCHANGED <<results, notifier, inflight, unknown>>
             ELSE IF task.handler_id \in handlers
             THEN /\ inflight' = Some(StartProcessing(task))
                  /\ UNCHANGED <<results, notifier, unknown>>
             ELSE /\ results' = Send(results, UnknownHandler(task))
                  /\ unknown' = unknown \cup {id}
                  /\ Notify
                  /\ UNCHANGED inflight
    /\ UNCHANGED <<task_id_counter, handlers, executed, cancel_called,
                   accepted, stop_called, obs, other>>
    /\ UNCHANGED <<drained>>

\* process_next_task called directly on the dispatcher (no runner loop)
ProcessNextTask ==
    /\ runner = "new"
    /\ ProcessNextTaskBody
    /\ UNCHANGED runner

\* the match with the error arm reporting Done
OutcomeStateErrDone(outcome) ==
    CASE outcome = "Ok" -> "Done"
      [] outcome = "Err" -> "Done"
      [] outcome = "Elapsed" -> "Timeout"

\* the match on tokio::time::timeout(self.timeout, node.execute(&ctx)).await
OutcomeState(outcome) ==
    CASE outcome = "Ok" -> "Done"
      [] outcome = "Err" -> "Failure"
      [] outcome = "Elapsed" -> "Timeout"

Outcomes == {"Ok", "Err", "Elapsed"}

\* process_next_task returning from the error arm without sending the result
ExecuteReturnsErrNoSend(outcome) ==
    /\ inflight # None
    /\ LET task == [inflight[1] EXCEPT !.state = OutcomeState(outcome)]
       IN  /\ results' = IF outcome = "Err" THEN results
                         ELSE Send(results, task)
           /\ executed' = Insert(executed, task.id, outcome)
    /\ Notify
    /\ inflight' = None
    /\ runner' = IF runner = "process" THEN "wait" ELSE runner
    /\ UNCHANGED <<qvars, task_id_counter, store, handlers, cancel_called,
                   accepted, taken, stop_called, obs, other>>
    /\ UNCHANGED <<unknown, drained>>

\* TaskDispatcher::process_next_task from the return of the timed execute
ExecuteReturns(outcome) ==
    /\ inflight # None
    /\ LET task == [inflight[1] EXCEPT !.state = OutcomeState(outcome)]
       IN  /\ results' = Send(results, task)
           /\ executed' = Insert(executed, task.id, outcome)
    /\ Notify
    /\ inflight' = None
    /\ runner' = IF runner = "process" THEN "wait" ELSE runner
    /\ UNCHANGED <<qvars, task_id_counter, store, handlers, cancel_called,
                   accepted, taken, stop_called, obs, other>>
    /\ UNCHANGED <<unknown, drained>>

\* the states a caller can give a task before add_task, and its content
AddInputs ==
    {<<st, TRUE>> : st \in TaskState} \cup {<<"Pending", FALSE>>}

Next ==
    \/ \E h \in HandlerIds : RegisterNode(h)
    \/ \E h \in HandlerIds : UnregisterNode(h)
    \/ \E h \in HandlerIds, qos \in QualityOfService, in \in AddInputs :
          AddTask(h, qos, in[1], in[2])
    \/ \E id \in 1..MaxAdd : CancelTask(id)
    \/ ClearTask
    \/ Stop
    \/ ProcessNextTask
    \/ \E o \in Outcomes : ExecuteReturns(o)

Spec == Init /\ [][Next]_vars

\* the dispatcher used with tasks as Task::new builds them
TaskNext ==
    \/ \E h \in HandlerIds : RegisterNode(h)
    \/ \E h \in HandlerIds : UnregisterNode(h)
    \/ \E h \in HandlerIds, qos \in QualityOfService :
          AddTask(h, qos, "Pending", TRUE)
    \/ \E id \in 1..MaxAdd : CancelTask(id)
    \/ ClearTask
    \/ Stop
    \/ ProcessNextTask
    \/ \E o \in Outcomes : ExecuteReturns(o)

TaskSpec == Init /\ [][TaskNext]_vars

\* -------------------------------------------------------------- TaskRunner
\* TaskRunner::run before the loop: notify(), then take notifier_rx
RunnerStart ==
    /\ runner = "new"
    /\ Unlocked
    /\ Notify
    /\ runner' = "wait"
    /\ UNCHANGED <<qvars, task_id_counter, store, handlers, inflight, results,
                   executed, cancel_called, accepted, taken, stop_called,
                   obs, other>>
    /\ UNCHANGED <<unknown, drained>>

\* notifier.changed().await returns once a value was sent that the receiver
\* has not seen, and marks it seen
RunnerChanged ==
    /\ runner = "wait"
    /\ notifier.changed
    /\ notifier' = [notifier EXCEPT !.changed = FALSE]
    /\ runner' = "check"
    /\ UNCHANGED <<qvars, task_id_counter, store, handlers, inflight, results,
                   executed, cancel_called, accepted, taken, stop_called,
                   obs, other>>
    /\ UNCHANGED <<unknown, drained>>

\* if *notifier.borrow() { break; }
RunnerCheck ==
    /\ runner = "check"
    /\ runner' = IF notifier.value THEN "exited" ELSE "tick"
    /\ UNCHANGED <<qvars, task_id_counter, store, handlers, notifier, inflight,
                   results, executed, cancel_called, accepted, taken,
                   stop_called, obs, other>>
    /\ UNCHANGED <<unknown, drained>>

\* itv.tick().await (the first tick of an interval completes at once), then
\* dispatcher.write().await.process_next_task()
RunnerProcess ==
    /\ runner = "tick"
    /\ ProcessNextTaskBody
    /\ runner' = IF inflight' # None THEN "process" ELSE "wait"

RunnerStep ==
    \/ RunnerStart
    \/ RunnerChanged
    \/ RunnerCheck
    \/ RunnerProcess
    \/ \E o \in Outcomes : ExecuteReturns(o)

RunnerNext ==
    \/ RunnerStep
    \/ \E h \in HandlerIds : RegisterNode(h)
    \/ \E h \in HandlerIds, qos \in QualityOfService :
          AddTask(h, qos, "Pending", TRUE)
    \/ \E id \in 1..MaxAdd : CancelTask(id)
    \/ ClearTask
    \/ Stop

\* the runtime keeps polling the spawned runner, and every execute returns
\* or is cut off by the dispatcher's timeout
RunnerSpec == Init /\ [][RunnerNext]_vars /\ WF_vars(RunnerStep)

\* ------------------------------------------------------ queue properties
\* the PendingTask at the head of handler h's TaskList, for lists in the heap
InHeap(h) == \E i \in 1..Len(queue) : queue[i] = h

HeadQos(h) == Peek(lists[h])[1].qos

Last(s) == s[Len(s)]

\* C2: whenever one TaskList in the heap has a UserInteractive head and
\* another one a Background head, the next mut_head(pop) returns a
\* UserInteractive task.
C2_PriorityAcrossHandlers ==
    [][(popped' # popped
        /\ \E h1, h2 \in HandlerIds :
              /\ h1 # h2 /\ InHeap(h1) /\ InHeap(h2)
              /\ lists[h1] # {} /\ lists[h2] # {}
              /\ HeadQos(h1) = UserInteractive
              /\ HeadQos(h2) = Background)
       => Last(popped').qos = UserInteractive]_vars

\* C3: two tasks of the same handler and the same QoS are popped in
\* increasing id order.
C3_FifoWithinClass ==
    \A i, j \in 1..Len(popped) :
        (i < j /\ popped[i].handler = popped[j].handler
               /\ popped[i].qos = popped[j].qos)
        => popped[i].id < popped[j].id

\* C4: pushing (A, Background, 1), (A, UserInteractive, 2), (B, Background, 3),
\* (B, UserInteractive, 4) and then popping four times yields 2, 4, 1, 3.
Scenario1 ==
    << [handler |-> "A", qos |-> Background, content |-> TRUE],
       [handler |-> "A", qos |-> UserInteractive, content |-> TRUE],
       [handler |-> "B", qos |-> Background, content |-> TRUE],
       [handler |-> "B", qos |-> UserInteractive, content |-> TRUE] >>

C4_ScenarioPopOrder ==
    (/\ pushed = Scenario1
     /\ Len(popped) = 4
     /\ \A i \in 1..4 : popped[i].at = 4)
    => [i \in 1..4 |-> popped[i].id] = <<2, 4, 1, 3>>

\* C5: every TaskList in the heap is non-empty, and the keys of the index map
\* are exactly the handler ids of the lists in the heap, each list once.
C5_QueueIntegrity ==
    /\ \A i \in 1..Len(queue) : lists[queue[i]] # {}
    /\ {queue[i] : i \in 1..Len(queue)} = index_tasks
    /\ Len(queue) = Cardinality(index_tasks)

\* a list has just been emptied by mut_head while another list is still queued
C5_Witness ==
    /\ popped # <<>>
    /\ Last(popped).handler \notin index_tasks
    /\ lists[Last(popped).handler] = {}
    /\ queue # <<>>

\* -------------------------------------------------- dispatcher properties
Terminal == {"Done", "Failure", "Timeout", "Cancel"}

InFlight(id) == inflight # None /\ inflight[1].id = id

\* C1: at most one result is ever sent per task, every result sent carries a
\* terminal state, and an accepted task that has left the store (popped by
\* process_next_task or drained by clear_task/stop) and is not executing has
\* received exactly one.
C1_ExactlyOnceTerminal ==
    \A id \in 1..Len(results) :
        /\ Len(results[id]) <= 1
        /\ \A i \in 1..Len(results[id]) : results[id][i] \in Terminal
        /\ (id \in accepted /\ id \notin DOMAIN store /\ ~InFlight(id))
           => Len(results[id]) = 1

\* one task was executed to Done and another one was drained by a clear
C1_Witness ==
    \E i, j \in 1..Len(results) :
        /\ i \in taken /\ i \in DOMAIN executed /\ results[i] = <<"Done">>
        /\ j \in accepted \ taken /\ results[j] = <<"Cancel">>

\* C6: a task cancel_task found in the store is never handed to execute, and
\* once it has left the store its one result is Cancel.
C6_CancelWhileQueued ==
    \A id \in cancel_called :
        /\ id \notin DOMAIN executed
        /\ ~InFlight(id)
        /\ id \notin DOMAIN store => results[id] = <<"Cancel">>
        /\ id \in DOMAIN store => results[id] = <<>>

\* a cancelled task was popped by process_next_task while all handlers were
\* registered
C6_Witness ==
    \E id \in cancel_called :
        /\ id \in taken
        /\ results[id] = <<"Cancel">>
        /\ handlers = HandlerIds

\* C7: the result of a task handed to execute is Done for Ok, Failure for an
\* error and Timeout for an elapsed timeout, whatever is called afterwards.
C7_ExecutedOutcome ==
    \A id \in DOMAIN executed :
        /\ executed[id] = "Ok" => results[id] = <<"Done">>
        /\ executed[id] = "Err" => results[id] = <<"Failure">>
        /\ executed[id] = "Elapsed" => results[id] = <<"Timeout">>

\* one execute failed and another one timed out
C7_Witness ==
    \E i, j \in DOMAIN executed :
        executed[i] = "Err" /\ executed[j] = "Elapsed"

\* C8: stop() and clear_task() report Cancel once for every task in the
\* store and leave the store empty; stop() leaves the queue empty as well,
\* so the next mut_head finds no work.
C8_StopClearCancelAll ==
    [][/\ (Stop \/ ClearTask)
          => /\ store' = <<>>
             /\ \A id \in DOMAIN store : results'[id] = <<"Cancel">>
       /\ Stop
          => /\ queue' = <<>>
             /\ index_tasks' = {}
             /\ QueueMutHead([index_tasks |-> index_tasks',
                              queue |-> queue',
                              lists |-> lists'])[1] = None]_vars

\* stop() has drained two queued tasks
C8_Witness ==
    /\ notifier.value
    /\ store = <<>> /\ queue = <<>>
    /\ \E i, j \in accepted \ taken :
          i # j /\ results[i] = <<"Cancel">> /\ results[j] = <<"Cancel">>

\* C9: once stop() has been called while the runner loop is running, the loop
\* eventually exits.
C9_ShutdownTerminatesRunner == stop_called ~> (runner = "exited")

\* C10 as stated: add_task with a task in any terminal state leaves the queue
\* and the store unchanged.
C10_RejectsTerminal ==
    [][\A h \in HandlerIds, qos \in QualityOfService, st \in Terminal :
          AddTask(h, qos, st, TRUE) => UNCHANGED <<qvars, store>>]_vars

\* C10 as amended: add_task with a Done task leaves queue, store and notifier
\* unchanged; a task built by Task::new in any other state is inserted into the
\* store in that state and its PendingTask is put on its handler's list.
C10_RejectsDoneOnly ==
    [][\A h \in HandlerIds, qos \in QualityOfService, st \in TaskState :
          AddTask(h, qos, st, TRUE)
          => IF st = "Done"
             THEN UNCHANGED <<qvars, store, notifier>>
             ELSE /\ task_id_counter \in DOMAIN store'
                  /\ store'[task_id_counter].state = st
                  /\ h \in index_tasks'
                  /\ [qos |-> qos, id |-> task_id_counter] \in lists'[h]]_vars

\* a Done task has been turned away and a Failure task sits in the store
C10_Witness ==
    /\ \E id \in DOMAIN store : store[id].state = "Failure"
    /\ \E id \in 1..Len(results) : id \notin accepted

\* TaskDispatcher::read_task
ReadTask(id) == IF id \in DOMAIN store THEN Some(store[id]) ELSE None

\* the task process_next_task is about to pop names a handler that is not
\* registered, and none of the earlier returns of process_next_task applies
HeadHandlerUnknown(id) ==
    /\ Unlocked
    /\ QueueMutHead(TheQueue)[1] # None
    /\ QueueMutHead(TheQueue)[1][1].id = id
    /\ id \in DOMAIN store
    /\ store[id].ret
    /\ ~is_cancel(store[id].state)
    /\ store[id].content
    /\ store[id].handler_id \notin handlers

\* C11: when the popped task's handler is not registered, process_next_task
\* reports the task as Cancel, sends exactly that one result for it and no
\* other, notifies, and starts no execute; such a task never has an execute
\* outcome.
C11_UnknownHandlerCancel ==
    /\ [][\A id \in 1..MaxTasks :
            HeadHandlerUnknown(id) /\ ProcessNextTaskBody
            => /\ results' = [results EXCEPT ![id] = <<"Cancel">>]
               /\ results[id] = <<>>
               /\ notifier' = [value |-> FALSE, changed |-> TRUE]
               /\ inflight' = None
               /\ executed' = executed
               /\ id \in unknown']_vars
    /\ [](\A id \in unknown :
             results[id] = <<"Cancel">> /\ id \notin DOMAIN executed)

\* a task whose handler was unregistered after add_task, and that nobody
\* cancelled, has been reported
C11_Witness ==
    \E id \in unknown :
        /\ id \notin cancel_called
        /\ id \in accepted
        /\ results[id] = <<"Cancel">>

\* C12: a task is in the store exactly when add_task inserted it and neither
\* process_next_task took it nor clear/stop drained it; read_task of a
\* processed id is None.
C12_StoreMembership ==
    /\ DOMAIN store = accepted \ (taken \cup drained)
    /\ \A id \in taken : ReadTask(id) = None

\* one task was processed, another is still stored
C12_Witness ==
    /\ taken # {}
    /\ \E id \in accepted \ taken : ReadTask(id) # None

\* C13: while an execute is pending, its task is the one task the dispatcher
\* has put in Processing, it is out of the store, and the only step the
\* dispatcher takes is the return of that execute: no pop, no removal from
\* the store, no other execute starts.
C13_OneTaskInFlight ==
    /\ [](inflight # None
           => /\ inflight[1].state = "Processing"
              /\ inflight[1].id \in taken
              /\ inflight[1].id \notin DOMAIN store
              /\ inflight[1].id \notin DOMAIN executed)
    /\ [][inflight # None
           => /\ inflight' = None
              /\ inflight[1].id \in DOMAIN executed'
              /\ UNCHANGED <<qvars, store, taken, handlers>>]_vars

\* an execute is pending while another accepted task waits in the store
C13_Witness ==
    /\ inflight # None
    /\ \E id \in DOMAIN store : id # inflight[1].id /\ store[id].content

\* ------------------------------------------------- TaskStore on its own
MaxIds == 3

\* a store just built, or one whose counter earlier calls of next_task_id
\* have advanced to u32::MAX - 1
IdInit ==
    /\ InitButCounter
    /\ \E c \in {<<0, 1>>, NearMax} :
          counter_hi = c[1] /\ task_id_counter = c[2]
    /\ eval = None

\* TaskStore::next_task_id
NextTaskId ==
    /\ Len(ids) < MaxIds
    /\ ids' = Append(ids, <<counter_hi, task_id_counter>>)
    /\ counter_hi' = FetchAdd(<<counter_hi, task_id_counter>>)[1]
    /\ task_id_counter' = FetchAdd(<<counter_hi, task_id_counter>>)[2]
    /\ UNCHANGED <<qvars, dvars, obs, wfvars, eval>>

\* TaskStore::insert_task(Task::new(h, id, content, qos)), id from next_task_id
StoreInsertTask(h, qos) ==
    /\ \E i \in 1..Len(ids) :
          store' = Insert(store, ids[i], NewTask(h, ids[i], qos))
    /\ UNCHANGED <<qvars, task_id_counter, handlers, notifier, inflight,
                   runner, results, executed, cancel_called, accepted, taken,
                   stop_called, unknown, drained, obs, other>>

\* TaskStore::remove_task
StoreRemove ==
    /\ \E id \in DOMAIN store : store' = StoreRemoveTask(store, id)
    /\ UNCHANGED <<qvars, task_id_counter, handlers, notifier, inflight,
                   runner, results, executed, cancel_called, accepted, taken,
                   stop_called, unknown, drained, obs, other>>

IdNext ==
    \/ NextTaskId
    \/ \E h \in HandlerIds, qos \in QualityOfService : StoreInsertTask(h, qos)
    \/ StoreRemove

IdSpec == IdInit /\ [][IdNext]_vars

\* C14: every value next_task_id returns is strictly greater than every
\* value it returned before, for any number of calls.
C14_MonotoneIds ==
    \A i, j \in 1..Len(ids) : i < j => U32Less(ids[i], ids[j])

\* ------------------------------------------------------------- Workflow
MaxEdges == 3
MaxExec == 5

NodeIds == {"N1", "N2", "N3"}

\* NodeRegistry with one registered NodeType
Registry == {"mock"}

\* the WorkflowNodes handed to add_node: <<id, node_type_name, disabled>>,
\* and whether the node's definition carries
\* input_mapping = Single("uppercase(@.response)")
NodeInputs ==
    {<<"N1", "mock", FALSE, FALSE>>,
     <<"N2", "mock", FALSE, FALSE>>,
     <<"N2", "mock", FALSE, TRUE>>,
     <<"N2", "mock", TRUE, FALSE>>,
     <<"N3", "mock", FALSE, FALSE>>,
     <<"N3", "ghost", FALSE, FALSE>>}

\* serde_json::Value, tagged
EmptyObject == <<"object", <<>>>>
Object(k, v) == <<"object", [x \in {k} |-> v]>>
ObjectOf(map) == <<"object", map>>
Number(n) == <<"number", n>>
Bool(b) == <<"bool", b>>
Array(s) == <<"array", s>>
String(cs) == <<"string", cs>>
Null == <<"null", <<>>>>

\* the text a node's handler answers with
Word(n) ==
    CASE n = "N1" -> <<"h", "e", "l", "l", "o">>
      [] n = "N2" -> <<"o", "k">>
      [] OTHER -> <<"g", "o">>

\* NodeOutput.data of a successful execute of node n
NodeOutput(n) == Object("response", String(Word(n)))

\* char::to_ascii_uppercase on the letters in use
UpperChar(c) ==
    CASE c = "h" -> "H" [] c = "e" -> "E" [] c = "l" -> "L"
      [] c = "o" -> "O" [] c = "k" -> "K" [] c = "g" -> "G"
      [] OTHER -> c

\* the mapping expression uppercase(@.response) evaluated on a root value:
\* field lookup, then the custom function on a string
UppercaseResponse(root) ==
    IF root[1] = "object" /\ "response" \in DOMAIN root[2]
       /\ root[2]["response"][1] = "string"
    THEN String([i \in 1..Len(root[2]["response"][2]) |->
                    UpperChar(root[2]["response"][2][i])])
    ELSE Null

\* Vec::retain(|e| e != x)
Retain(list, x) == SelectSeq(list, LAMBDA e : e # x)

Count(list, x) == Len(SelectSeq(list, LAMBDA e : e = x))

\* map.entry(k).or_insert_with(Vec::new).push(v)
PushEntry(conn, k, v) ==
    Insert(conn, k, Append(IF k \in DOMAIN conn THEN conn[k] ELSE <<>>, v))

\* remove_node dropping the key but leaving the id in the other lists
RemoveNodeFromKeysOnly(conn, id) == [k \in DOMAIN conn \ {id} |-> conn[k]]

\* remove_node on one table: remove(node_id), then retain on every list
RemoveNodeFrom(conn, id) ==
    [k \in DOMAIN conn \ {id} |-> Retain(conn[k], id)]

\* get_children
Children(id) == IF id \in DOMAIN conn_src THEN conn_src[id] ELSE <<>>

\* get_parents
Parents(id) == IF id \in DOMAIN conn_dst THEN conn_dst[id] ELSE <<>>

RECURSIVE SumLens(_, _)
SumLens(conn, keys) ==
    IF keys = {} THEN 0
    ELSE LET k == CHOOSE x \in keys : TRUE
         IN  Len(conn[k]) + SumLens(conn, keys \ {k})

\* number of connections held in connections_by_source
TotalEdges == SumLens(conn_src, DOMAIN conn_src)

\* the orders in which a HashMap may iterate over the keys in S
Orders(S) ==
    {o \in [1..Cardinality(S) -> S] : \A i, j \in 1..Cardinality(S) :
                                          o[i] = o[j] => i = j}

RECURSIVE PushAll(_, _, _)
PushAll(rev, src, targets) ==
    IF targets = <<>> THEN rev
    ELSE PushAll(PushEntry(rev, Head(targets), src), src, Tail(targets))

\* the loops of build_reverse_connections over connections_by_source
RECURSIVE ReverseMap(_, _, _)
ReverseMap(conn, order, rev) ==
    IF order = <<>> THEN rev
    ELSE ReverseMap(conn, Tail(order),
                    PushAll(rev, Head(order), conn[Head(order)]))

Building == run.pc = "idle"

\* Workflow::add_node
AddNode(in) ==
    /\ Building
    /\ wf_nodes' = Insert(wf_nodes, in[1],
                          [node_type_name |-> in[2], disabled |-> in[3]])
    /\ wf_mapping' = IF in[4] THEN wf_mapping \cup {in[1]}
                     ELSE wf_mapping \ {in[1]}
    /\ UNCHANGED <<conn_src, conn_dst, run, exec_log>>
    /\ UNCHANGED <<qvars, task_id_counter, dvars, obs, ids, counter_hi, eval,
                   dgvars>>

\* Workflow::remove_node
RemoveNode(id) ==
    /\ Building
    /\ wf_nodes' = Remove(wf_nodes, id)
    /\ conn_src' = RemoveNodeFrom(conn_src, id)
    /\ conn_dst' = RemoveNodeFrom(conn_dst, id)
    /\ wf_mapping' = wf_mapping \ {id}
    /\ UNCHANGED <<run, exec_log>>
    /\ UNCHANGED <<qvars, task_id_counter, dvars, obs, ids, counter_hi, eval,
                   dgvars>>

\* connect_nodes recording the source's entry before it looks at the target
connect_nodes_late(nodes, by_source, by_destination, source_id, target_id) ==
    IF source_id \notin DOMAIN nodes
    THEN [ret |-> <<"Err", "Source node not found", source_id>>,
          by_source |-> by_source, by_destination |-> by_destination]
    ELSE IF target_id \notin DOMAIN nodes
    THEN [ret |-> <<"Err", "Target node not found", target_id>>,
          by_source |-> PushEntry(by_source, source_id, target_id),
          by_destination |-> by_destination]
    ELSE [ret |-> <<"Ok">>,
          by_source |-> PushEntry(by_source, source_id, target_id),
          by_destination |-> PushEntry(by_destination, target_id, source_id)]

\* Workflow::connect_nodes as a function of the three tables:
\* the Result it returns and the two connection tables it leaves
connect_nodes(nodes, by_source, by_destination, source_id, target_id) ==
    IF source_id \notin DOMAIN nodes
    THEN [ret |-> <<"Err", "Source node not found", source_id>>,
          by_source |-> by_source, by_destination |-> by_destination]
    ELSE IF target_id \notin DOMAIN nodes
    THEN [ret |-> <<"Err", "Target node not found", target_id>>,
          by_source |-> by_source, by_destination |-> by_destination]
    ELSE [ret |-> <<"Ok">>,
          by_source |-> PushEntry(by_source, source_id, target_id),
          by_destination |-> PushEntry(by_destination, target_id, source_id)]

\* Workflow::connect_nodes
ConnectNodes(source_id, target_id) ==
    /\ Building
    /\ TotalEdges < MaxEdges
    /\ LET r == connect_nodes(wf_nodes, conn_src, conn_dst,
                              source_id, target_id)
       IN  /\ conn_src' = r.by_source
           /\ conn_dst' = r.by_destination
    /\ UNCHANGED <<wf_nodes, wf_mapping, run, exec_log>>
    /\ UNCHANGED <<qvars, task_id_counter, dvars, obs, ids, counter_hi, eval,
                   dgvars>>

\* Workflow::disconnect_nodes
DisconnectNodes(source_id, target_id) ==
    /\ Building
    /\ conn_src' = IF source_id \in DOMAIN conn_src
                   THEN [conn_src EXCEPT ![source_id] = Retain(@, target_id)]
                   ELSE conn_src
    /\ conn_dst' = IF target_id \in DOMAIN conn_dst
                   THEN [conn_dst EXCEPT ![target_id] = Retain(@, source_id)]
                   ELSE conn_dst
    /\ UNCHANGED <<wf_nodes, wf_mapping, run, exec_log>>
    /\ UNCHANGED <<qvars, task_id_counter, dvars, obs, ids, counter_hi, eval,
                   dgvars>>

\* Workflow::build_reverse_connections
BuildReverseConnections ==
    /\ Building
    /\ \E order \in Orders(DOMAIN conn_src) :
          conn_dst' = ReverseMap(conn_src, order, <<>>)
    /\ UNCHANGED <<wf_nodes, conn_src, wf_mapping, run, exec_log>>
    /\ UNCHANGED <<qvars, task_id_counter, dvars, obs, ids, counter_hi, eval,
                   dgvars>>

\* NodeError::InvalidConfig("NodeType '..' not registered for node '..'")
InvalidConfig(type, id) == <<"InvalidConfig", type, id>>

\* the error a node's execute returned
ExecuteError(id) == <<"ExecuteError", id>>

\* the next turn of the while loop, or Ok(results) once the queue is empty
Continue(r, q) ==
    [r EXCEPT !.queue = q,
              !.pc = IF q = <<>> THEN "ok" ELSE "running",
              !.ret = IF q = <<>> THEN Some(<<"Ok", r.results>>) ELSE None]

\* every node without parents, disabled or not
StartNodesAll == {id \in DOMAIN wf_nodes : Parents(id) = <<>>}

\* the enabled nodes without parents
StartNodes ==
    {id \in DOMAIN wf_nodes : ~wf_nodes[id].disabled /\ Parents(id) = <<>>}

\* Workflow::run up to the BFS loop
RunStart ==
    /\ Building
    /\ \E start_nodes \in Orders(StartNodes) :
          run' = Continue(run, start_nodes)
    /\ UNCHANGED <<wf_nodes, conn_src, conn_dst, wf_mapping, exec_log>>
    /\ UNCHANGED <<qvars, task_id_counter, dvars, obs, ids, counter_hi, eval,
                   dgvars>>

\* the loop of lines 246-250: outputs of the parents that have a result
MergedInput(res, parent_ids) ==
    LET have == SelectSeq(parent_ids, LAMBDA pid : pid \in DOMAIN res)
    IN  [i \in 1..Len(have) |-> res[have[i]]]

\* lines 252-259
InputData(merged_input) ==
    IF Len(merged_input) = 1 THEN merged_input[1]
    ELSE IF merged_input = <<>> THEN EmptyObject
    ELSE Array(merged_input)

\* run skipping a node whose type is not registered
NotRegisteredSkip(r, rest, type, id) == Continue(r, rest)

\* lines 231-240: return Err(NodeError::InvalidConfig(..))
NotRegistered(r, rest, type, id) ==
    [r EXCEPT !.queue = rest, !.pc = "err",
              !.ret = Some(InvalidConfig(type, id))]

\* run skipping a node whose execute failed
ExecuteFailedSkip(r, rest, id) == Continue(r, rest)

\* lines 268-274: return Err(err)
ExecuteFailed(r, rest, id) ==
    [r EXCEPT !.queue = rest, !.pc = "err", !.ret = Some(ExecuteError(id))]

\* one turn of the while loop of Workflow::run
RunStep(outcome) ==
    /\ run.pc = "running"
    /\ Len(exec_log) < MaxExec
    /\ LET current_id == Head(run.queue)
           rest == Tail(run.queue)
       IN  IF current_id \notin DOMAIN wf_nodes \/ wf_nodes[current_id].disabled
           THEN /\ run' = Continue(run, rest)
                /\ UNCHANGED exec_log
           ELSE IF wf_nodes[current_id].node_type_name \notin Registry
           THEN /\ run' = NotRegistered(run, rest,
                              wf_nodes[current_id].node_type_name, current_id)
                /\ UNCHANGED exec_log
           ELSE LET input_data ==
                        InputData(MergedInput(run.results, Parents(current_id)))
                IN  /\ exec_log' = Append(exec_log,
                                     [node |-> current_id, input |-> input_data,
                                      outcome |-> outcome])
                    /\ IF outcome = "Err"
                       THEN run' = ExecuteFailed(run, rest, current_id)
                       ELSE run' = Continue(
                               [run EXCEPT !.results =
                                   Insert(@, current_id, NodeOutput(current_id))],
                               rest \o Children(current_id))
    /\ UNCHANGED <<wf_nodes, conn_src, conn_dst, wf_mapping>>
    /\ UNCHANGED <<qvars, task_id_counter, dvars, obs, ids, counter_hi, eval,
                   dgvars>>

WfNext ==
    \/ \E in \in NodeInputs : AddNode(in)
    \/ \E id \in NodeIds : RemoveNode(id)
    \/ \E s, t \in NodeIds : ConnectNodes(s, t)
    \/ \E s, t \in NodeIds : DisconnectNodes(s, t)
    \/ BuildReverseConnections
    \/ RunStart
    \/ \E o \in {"Ok", "Err"} : RunStep(o)

WfSpec == Init /\ [][WfNext]_vars

\* ------------------------------------------------- workflow properties
Edge(a, b) == Count(Children(a), b) > 0

RECURSIVE ReachesIn(_, _, _)
ReachesIn(a, b, n) ==
    /\ n > 0
    /\ \/ Edge(a, b)
       \/ \E c \in NodeIds : Edge(a, c) /\ ReachesIn(c, b, n - 1)

Cyclic == \E id \in NodeIds : ReachesIn(id, id, Cardinality(NodeIds))

\* how many times run has executed the node
Executions(id) ==
    Cardinality({i \in 1..Len(exec_log) : exec_log[i].node = id})

\* every node is enabled, of a registered type and without input_mapping
AllPlain ==
    /\ wf_mapping = {}
    /\ \A id \in DOMAIN wf_nodes :
          ~wf_nodes[id].disabled /\ wf_nodes[id].node_type_name \in Registry

\* the fan-in of the node's k parents, each parent giving NodeOutput
FanIn(id) ==
    LET k == Len(Parents(id))
    IN  IF k = 0 THEN EmptyObject
        ELSE IF k = 1 THEN NodeOutput(Parents(id)[1])
        ELSE Array([i \in 1..k |-> NodeOutput(Parents(id)[i])])

\* C15: in an acyclic workflow every execution of a node with k parents gets
\* {} for k = 0, the parent's output for k = 1, and otherwise the array of
\* all k parents' outputs in parent order.
C15_FanIn ==
    (~Cyclic /\ AllPlain)
    => \A i \in 1..Len(exec_log) :
          exec_log[i].input = FanIn(exec_log[i].node)

\* C16: on a workflow whose connections contain a cycle, run either executes
\* nothing (the workflow is rejected) or executes each node at most once.
C16_CyclePolicy ==
    Cyclic => \A id \in NodeIds : Executions(id) <= 1

\* C17: a node with input_mapping Single("uppercase(@.response)") and one
\* parent is executed with the mapping's value on the parent's output, e.g.
\* "HELLO" after N1's {"response": "hello"}.
C17_InputMappingApplied ==
    \A i \in 1..Len(exec_log) :
        LET id == exec_log[i].node
        IN  (id \in wf_mapping /\ ~Cyclic /\ Len(Parents(id)) = 1)
            => exec_log[i].input = UppercaseResponse(NodeOutput(Parents(id)[1]))

\* C18: when an execute returns an error, it is the last execute of the run,
\* and run returns that error and no result map.
C18_FirstErrorAborts ==
    \A i \in 1..Len(exec_log) :
        exec_log[i].outcome = "Err"
        => /\ i = Len(exec_log)
           /\ run.pc = "err"
           /\ run.ret = Some(ExecuteError(exec_log[i].node))

\* a node failed after another one had succeeded and with nodes still queued
C18_Witness ==
    /\ Len(exec_log) >= 2
    /\ exec_log[Len(exec_log)].outcome = "Err"
    /\ run.results # <<>>
    /\ run.queue # <<>>

\* the node run is about to take is enabled and of an unregistered type
HeadNotRegistered ==
    /\ run.pc = "running"
    /\ Head(run.queue) \in DOMAIN wf_nodes
    /\ ~wf_nodes[Head(run.queue)].disabled
    /\ wf_nodes[Head(run.queue)].node_type_name \notin Registry

\* C19: reaching an enabled node of an unregistered type, run returns
\* InvalidConfig without executing it; no node of an unregistered type is
\* ever executed and nothing is executed once run has returned an error.
C19_UnregisteredType ==
    /\ [][(HeadNotRegistered /\ \E o \in {"Ok", "Err"} : RunStep(o))
           => /\ run'.pc = "err"
              /\ run'.ret # None
              /\ run'.ret[1][1] = "InvalidConfig"
              /\ exec_log' = exec_log]_vars
    /\ [][run.pc = "err" => exec_log' = exec_log]_vars
    /\ [](\A i \in 1..Len(exec_log) :
             wf_nodes[exec_log[i].node].node_type_name \in Registry)

\* run stopped at an unregistered type after one execute, a node still queued
C19_Witness ==
    /\ run.pc = "err"
    /\ run.ret[1][1] = "InvalidConfig"
    /\ exec_log # <<>>
    /\ run.queue # <<>>

\* C20: every id that is a key or a list element of either connection table
\* is a key of nodes, and t occurs in connections_by_source[s] as often as s
\* occurs in connections_by_destination[t].
C20_GraphConsistency ==
    /\ DOMAIN conn_src \cup DOMAIN conn_dst \subseteq DOMAIN wf_nodes
    /\ \A k \in DOMAIN conn_src : \A i \in 1..Len(conn_src[k]) :
          conn_src[k][i] \in DOMAIN wf_nodes
    /\ \A k \in DOMAIN conn_dst : \A i \in 1..Len(conn_dst[k]) :
          conn_dst[k][i] \in DOMAIN wf_nodes
    /\ \A s, t \in NodeIds : Count(Children(s), t) = Count(Parents(t), s)

\* a node was removed or disconnected (a key is left with an empty list)
\* while a doubled connection is still held
C20_Witness ==
    /\ \E s, t \in NodeIds : Count(Children(s), t) = 2
    /\ \E k \in DOMAIN conn_dst : conn_dst[k] = <<>>

\* ------------------------------------------- task states (TaskSpec)
\* where a task's state is held: in the store, in the task process_next_task
\* owns during execute, or in the result that was sent; "None" before
\* add_task
TaskStateOf(id) ==
    IF id \in DOMAIN store THEN store[id].state
    ELSE IF InFlight(id) THEN inflight[1].state
    ELSE IF id \in 1..Len(results) /\ results[id] # <<>> THEN Last(results[id])
    ELSE "None"

LegalTransitions ==
    {<<"None", "Pending">>, <<"Pending", "Processing">>,
     <<"Processing", "Done">>, <<"Processing", "Failure">>,
     <<"Processing", "Timeout">>, <<"Pending", "Cancel">>,
     <<"Processing", "Cancel">>}

Exprs == {"@.c", "uppercase(@.response)"}
FieldNames == {"a", "b"}

\* InputMapping::Single(String)
Single(expr) == <<"Single", expr>>

\* InputMapping::Multi { fields, defaultValue }
Multi(fields, defaultValue) == <<"Multi", fields, defaultValue>>

\* BTreeMap<String, String> over the field names
FieldMaps == UNION {[ks -> Exprs] : ks \in SUBSET FieldNames}

\* the values a defaultValue may carry
DefaultValues == {Null, Bool(FALSE), Number(0), String(<<"x">>), EmptyObject}

\* Option<InputMapping>
InputMappings ==
    {None}
    \cup {Some(Single(e)) : e \in Exprs}
    \cup {Some(Multi(f, None)) : f \in FieldMaps}
    \cup {Some(Multi(f, Some(v))) : f \in FieldMaps, v \in DefaultValues}

\* Serialize for Option<T>: None is null, Some(v) is v
SerializeOption(opt) == IF opt = None THEN Null ELSE opt[1]

\* Deserialize for Option<T>: null is None, any other value v is Some(v)
DeserializeOption(json) == IF json = Null THEN None ELSE Some(json)

\* derive(Serialize) with serde(untagged): Single is its string, Multi the
\* object of its two fields
SerializeMapping(m) ==
    IF m[1] = "Single" THEN <<"string", m[2]>>
    ELSE ObjectOf([k \in {"fields", "defaultValue"} |->
                     IF k = "fields" THEN ObjectOf(m[2])
                     ELSE SerializeOption(m[3])])

\* derive(Deserialize) with serde(untagged): the first variant that fits;
\* a missing defaultValue takes its default
DeserializeMapping(json) ==
    IF json[1] = "string" THEN Single(json[2])
    ELSE Multi(json[2]["fields"][2],
               IF "defaultValue" \in DOMAIN json[2]
               THEN DeserializeOption(json[2]["defaultValue"])
               ELSE None)

\* the input_mapping member written by serde_json::to_string(&node)
SerializeInputMapping(opt) ==
    IF opt = None THEN Null ELSE SerializeMapping(opt[1])

\* the input_mapping field read by serde_json::from_str::<Node>
DeserializeInputMapping(json) ==
    IF json = Null THEN None ELSE Some(DeserializeMapping(json))

SerdeInit ==
    /\ InitButEval
    /\ \E m \in InputMappings :
          eval = [input_mapping |-> m, json |-> None, back |-> None]

\* serde_json::to_string(&node)
SerializeNode ==
    /\ eval.json = None
    /\ eval' = [eval EXCEPT !.json = Some(SerializeInputMapping(eval.input_mapping))]
    /\ UNCHANGED <<qvars, task_id_counter, dvars, obs, ids, counter_hi, wfvars>>

\* serde_json::from_str::<Node>(&serialized)
DeserializeNode ==
    /\ eval.json # None
    /\ eval.back = None
    /\ eval' = [eval EXCEPT !.back = Some(DeserializeInputMapping(eval.json[1]))]
    /\ UNCHANGED <<qvars, task_id_counter, dvars, obs, ids, counter_hi, wfvars>>

SerdeNext == SerializeNode \/ DeserializeNode

SerdeSpec == SerdeInit /\ [][SerdeNext]_vars

\* C22: a Node serialized to JSON and read back has an input_mapping equal
\* to the one it had, whether None, Single or Multi.
C22_InputMappingRoundTrip ==
    eval.back # None => eval.back[1] = eval.input_mapping

\* ------------------------------------------------------ apply_template
MaxArr == 2

Ok(v) == <<"Ok", v>>
Err(e) == <<"Err", e>>

\* str::contains(char) on a string kept as its characters
Contains(cs, ch) == \E i \in 1..Len(cs) : cs[i] = ch

\* the strings put into templates: "@.c", "@.d", "hello", "a@b"
TemplateStrings ==
    {<<"@", ".", "c">>, <<"@", ".", "d">>, <<"h", "e", "l", "l", "o">>,
     <<"a", "@", "b">>}

\* Variable::get_field: the member of an object, null otherwise
GetField(v, name) ==
    IF v[1] = "object" /\ name \in DOMAIN v[2] THEN v[2][name] ELSE Null

\* compile_and_search on the template strings: "@" is Identity, "@.x" is
\* Subexpr(Identity, Field x), and a token left after the expression is a
\* parse error
CompileAndSearch(cs, ctx) ==
    IF cs = <<"@">> THEN Ok(ctx)
    ELSE IF Len(cs) = 3 /\ cs[1] = "@" /\ cs[2] = "." /\ cs[3] \in {"c", "d"}
    THEN Ok(GetField(ctx, cs[3]))
    ELSE Err(<<"CompileError", cs>>)

\* the test looking for '(' only
IsExpressionParenOnly(cs) == Contains(cs, "(")

\* apply_template line 13: s.contains('(') || s.contains('@')
IsExpression(cs) == Contains(cs, "(") \/ Contains(cs, "@")

\* serde_json::Map iterates in key order
KeyOrder == <<"a", "b", "nested">>

ParameterKeyOrder == <<"c", "d">>

SortedKeys(map) == SelectSeq(KeyOrder, LAMBDA k : k \in DOMAIN map)

RECURSIVE ApplyTemplate(_, _)
RECURSIVE ApplyEach(_, _, _)

\* the loops of apply_template over an object's members (keys, by key) or an
\* array's elements (keys, by index): the first error is returned
ApplyEach(items, keys, ctx) ==
    IF keys = <<>> THEN Ok(<<>>)
    ELSE LET first == ApplyTemplate(items[Head(keys)], ctx)
         IN  IF first[1] = "Err" THEN first
             ELSE LET others == ApplyEach(items, Tail(keys), ctx)
                  IN  IF others[1] = "Err" THEN others
                      ELSE Ok(Insert(others[2], Head(keys), first[2]))

\* apply_template
ApplyTemplate(t, ctx) ==
    IF t[1] = "string"
    THEN IF IsExpression(t[2])
         THEN LET r == CompileAndSearch(t[2], ctx)
              IN  IF r[1] = "Err" THEN Err(<<"Mapping failed", r[2]>>) ELSE r
         ELSE Ok(String(t[2]))
    ELSE IF t[1] = "object"
    THEN LET r == ApplyEach(t[2], SortedKeys(t[2]), ctx)
         IN  IF r[1] = "Err" THEN r ELSE Ok(ObjectOf(r[2]))
    ELSE IF t[1] = "array"
    THEN LET r == ApplyEach(t[2], [i \in 1..Len(t[2]) |-> i], ctx)
         IN  IF r[1] = "Err" THEN r ELSE Ok(Array(r[2]))
    ELSE Ok(t)

\* template values: leaves, then objects and arrays of leaves, then one more
\* level of nesting
Leaves == {Number(12), Null} \cup {String(cs) : cs \in TemplateStrings}

Flat ==
    {ObjectOf(m) : m \in UNION {[ks -> Leaves] : ks \in SUBSET {"a", "b"}}}
    \cup {Array(a) : a \in UNION {[1..n -> Leaves] : n \in 0..MaxArr}}

Templates ==
    Leaves \cup Flat
    \cup {Object("nested", c) : c \in Flat}
    \cup {Array(<<c>>) : c \in Flat}

\* serde_json::Map keeps its keys in order
KeyLeq(a, b) ==
    \E i, j \in 1..Len(ParameterKeyOrder) :
       ParameterKeyOrder[i] = a /\ ParameterKeyOrder[j] = b /\ i <= j

\* the call does not return: the thread panics with msg
Panic(msg) == <<"Panic", msg>>

\* serde_json's IndexMut<&str> for Value, ctx[key] = value: null becomes an
\* object first, an object gets the member, any other value panics
IndexAssign(ctx, key, value) ==
    IF ctx[1] = "null" THEN Object(key, value)
    ELSE IF ctx[1] = "object" THEN ObjectOf(Insert(ctx[2], key, value))
    ELSE Panic(<<"cannot access key in JSON", key, ctx[1]>>)

\* the loop of apply_mapping_template over the members of parameters
RECURSIVE AssignEach(_, _, _)
AssignEach(ctx, keys, params) ==
    IF keys = {} THEN ctx
    ELSE LET key == CHOOSE k \in keys : \A k2 \in keys : KeyLeq(k, k2)
             next == IndexAssign(ctx, key, params[key])
         IN  IF next[1] = "Panic" THEN next
             ELSE AssignEach(next, keys \ {key}, params)

\* the context of apply_mapping_template: merged_input with the members of
\* parameters written over it, when parameters is an object
MergeParameters(merged_input, parameters) ==
    IF parameters[1] = "object"
    THEN AssignEach(merged_input, DOMAIN parameters[2], parameters[2])
    ELSE merged_input

\* apply_mapping_template
ApplyMappingTemplate(merged_input, parameters, mapping_template) ==
    LET ctx == MergeParameters(merged_input, parameters)
    IN  IF ctx[1] = "Panic" THEN ctx
        ELSE ApplyTemplate(mapping_template, ctx)

\* upstream data: one parent's output, no parent, the array made of several
\* parents' outputs, and the other kinds of JSON value
MergedInputs ==
    {Object("c", Number(2)), EmptyObject, Null,
     Array(<<Object("c", Number(2)), EmptyObject>>),
     String(<<"c">>), Number(2), Bool(TRUE)}

\* dynamic parameters
Parameters == {Null, EmptyObject, Object("d", Bool(TRUE))}

TemplateInit ==
    /\ InitButEval
    /\ \E t \in Templates, c \in MergedInputs, ps \in Parameters :
          eval = [template |-> t, merged_input |-> c, parameters |-> ps,
                  ctx |-> None, result |-> None]

\* apply_mapping_template(merged_input, &parameters, &mapping_template)
ApplyTemplateCall ==
    /\ eval.result = None
    /\ eval' = [eval EXCEPT
                  !.ctx = Some(MergeParameters(eval.merged_input, eval.parameters)),
                  !.result = Some(ApplyMappingTemplate(eval.merged_input,
                                                       eval.parameters,
                                                       eval.template))]
    /\ UNCHANGED <<qvars, task_id_counter, dvars, obs, ids, counter_hi, wfvars>>

TemplateNext == ApplyTemplateCall

TemplateSpec == TemplateInit /\ [][TemplateNext]_vars

\* a string of the template that apply_template takes for an expression
RECURSIVE HasExpression(_)
HasExpression(t) ==
    IF t[1] = "string" THEN Contains(t[2], "(") \/ Contains(t[2], "@")
    ELSE IF t[1] \in {"object", "array"}
    THEN \E k \in DOMAIN t[2] : HasExpression(t[2][k])
    ELSE FALSE

\* v is t with every expression string replaced by its value over ctx
RECURSIVE Replaced(_, _, _)
Replaced(t, v, ctx) ==
    IF t[1] = "string" /\ (Contains(t[2], "(") \/ Contains(t[2], "@"))
    THEN CompileAndSearch(t[2], ctx) = Ok(v)
    ELSE IF t[1] \in {"object", "array"}
    THEN /\ v[1] = t[1]
         /\ DOMAIN v[2] = DOMAIN t[2]
         /\ \A k \in DOMAIN t[2] : Replaced(t[2][k], v[2][k], ctx)
    ELSE v = t

\* C23: apply_mapping_template replaces every expression string of the template by
\* its value over the context and passes every other value through, through
\* objects and arrays; {"a": 12, "b": "@.c"} over {"c": 2} gives
\* {"a": 12, "b": 2}, and a template without expressions comes back unchanged.
C23_TemplateEvaluation ==
    (eval.result # None /\ eval.ctx[1][1] # "Panic")
    => LET r == eval.result[1]
       IN  /\ r[1] = "Ok" => Replaced(eval.template, r[2], eval.ctx[1])
           /\ ~HasExpression(eval.template) => r = Ok(eval.template)
           /\ (/\ eval.merged_input = Object("c", Number(2))
               /\ eval.parameters = Null
               /\ eval.template =
                     ObjectOf([k \in {"a", "b"} |->
                                 IF k = "a" THEN Number(12)
                                 ELSE String(<<"@", ".", "c">>)]))
              => r = Ok(ObjectOf([k \in {"a", "b"} |-> IF k = "a" THEN Number(12)
                                                     ELSE Number(2)]))

\* an expression nested in an array inside an object has been replaced
C23_Witness ==
    /\ eval.result # None
    /\ eval.result[1][1] = "Ok"
    /\ eval.merged_input = Object("c", Number(2))
    /\ eval.parameters = Object("d", Bool(TRUE))
    /\ eval.template = Object("nested", Array(<<String(<<"@", ".", "c">>),
                                                 String(<<"@", ".", "d">>)>>))
    /\ eval.result[1][2] = Object("nested", Array(<<Number(2), Bool(TRUE)>>))

\* ------------------------------------------------- interpreter: truthiness
\* test_group_3_logic_expressions: !Number is false, !Zero is false and
\* !!Zero is true, so every number is truthy
NumberIsTruthy(n) == TRUE

\* Variable::is_truthy
IsTruthy(v) ==
    IF v[1] = "bool" THEN v[2]
    ELSE IF v[1] = "number" THEN NumberIsTruthy(v[2])
    ELSE IF v[1] = "string" THEN v[2] # <<>>
    ELSE IF v[1] = "array" THEN v[2] # <<>>
    ELSE IF v[1] = "object" THEN DOMAIN v[2] # {}
    ELSE FALSE

Identity == <<"Identity">>
Field(name) == <<"Field", name>>
Not(node) == <<"Not", node>>
Or(lhs, rhs) == <<"Or", lhs, rhs>>
And(lhs, rhs) == <<"And", lhs, rhs>>
Condition(predicate, then) == <<"Condition", predicate, then>>
Projection(lhs, rhs) == <<"Projection", lhs, rhs>>

RECURSIVE interpret(_, _)

\* Ast::And choosing its branch as Ast::Or does
InterpretAndAsOr(data, lhs, rhs) ==
    LET left == interpret(data, lhs)
    IN  IF IsTruthy(left) THEN left ELSE interpret(data, rhs)

\* Ast::And
InterpretAnd(data, lhs, rhs) ==
    LET left == interpret(data, lhs)
    IN  IF ~IsTruthy(left) THEN left ELSE interpret(data, rhs)

\* Ast::Projection: the non-null results over the elements of an array
RECURSIVE Collect(_, _)
Collect(arr, rhs) ==
    IF arr = <<>> THEN <<>>
    ELSE LET current == interpret(Head(arr), rhs)
         IN  (IF current # Null THEN <<current>> ELSE <<>>) \o Collect(Tail(arr), rhs)

\* interpret, for the nodes the logic expressions and filters are made of
interpret(data, node) ==
    CASE node[1] = "Identity" -> data
      [] node[1] = "Field" -> GetField(data, node[2])
      [] node[1] = "Or" ->
            LET left == interpret(data, node[2])
            IN  IF IsTruthy(left) THEN left ELSE interpret(data, node[3])
      [] node[1] = "And" -> InterpretAnd(data, node[2], node[3])
      [] node[1] = "Not" -> Bool(~IsTruthy(interpret(data, node[2])))
      [] node[1] = "Condition" ->
            IF IsTruthy(interpret(data, node[2])) THEN interpret(data, node[3])
            ELSE Null
      [] node[1] = "Projection" ->
            LET left == interpret(data, node[2])
            IN  IF left[1] = "array" THEN Array(Collect(left[2], node[3])) ELSE Null

\* operand values: each kind of value, empty and not
Operands ==
    {Null, Bool(FALSE), Bool(TRUE), Number(0), Number(5), String(<<>>),
     String(<<"x">>), Array(<<>>), Array(<<Number(0)>>), EmptyObject,
     Object("k", Null)}

\* x && y, x || y, !x, !!x and list[?@]
LogicExpressions ==
    {And(Field("x"), Field("y")), Or(Field("x"), Field("y")), Not(Field("x")),
     Not(Not(Field("x"))), Projection(Field("list"), Condition(Identity, Identity))}

Given(x, y) ==
    ObjectOf([k \in {"x", "y", "list"} |->
                IF k = "x" THEN x ELSE IF k = "y" THEN y ELSE Array(<<x, y>>)])

LogicInit ==
    /\ InitButEval
    /\ \E x \in Operands, y \in Operands, e \in LogicExpressions :
          eval = [x |-> x, y |-> y, expr |-> e, result |-> None]

\* compile_and_search(expr, &given) on a parsed expression
Search ==
    /\ eval.result = None
    /\ eval' = [eval EXCEPT !.result = Some(interpret(Given(eval.x, eval.y), eval.expr))]
    /\ UNCHANGED <<qvars, task_id_counter, dvars, obs, ids, counter_hi, wfvars>>

LogicNext == Search

LogicSpec == LogicInit /\ [][LogicNext]_vars

\* the values the claim calls falsy, and those without numeric zero
ClaimedFalsy ==
    {Null, Bool(FALSE), Number(0), String(<<>>), Array(<<>>), EmptyObject}

FalsyButZero == ClaimedFalsy \ {Number(0)}

\* the result of each logic expression when exactly the values of falsy are
\* falsy
ChosenBy(falsy) ==
    eval.result # None
    => LET r == eval.result[1]
           x == eval.x
           y == eval.y
       IN  /\ eval.expr = Not(Field("x")) => r = Bool(x \in falsy)
           /\ eval.expr = Not(Not(Field("x"))) => r = Bool(x \notin falsy)
           /\ eval.expr = Or(Field("x"), Field("y"))
              => r = IF x \in falsy THEN y ELSE x
           /\ eval.expr = And(Field("x"), Field("y"))
              => r = IF x \in falsy THEN x ELSE y
           /\ eval.expr = Projection(Field("list"), Condition(Identity, Identity))
              => r = Array(SelectSeq(<<x, y>>, LAMBDA v : v \notin falsy))

\* C24 as stated: null, false, numeric zero, the empty string, the empty
\* array and the empty object are falsy and every other value truthy; !x
\* negates x's truthiness and the filter, || and && branches are chosen by it.
C24_Truthiness == ChosenBy(ClaimedFalsy)

\* C24 amended: null, false, the empty string, the empty array and the empty
\* object are falsy and every other value, numeric zero included, is truthy;
\* !x negates x's truthiness and the filter, || and && branches are chosen
\* by it.
C24_TruthinessZeroTruthy == ChosenBy(FalsyButZero)

\* 0 && y has returned y
C24_Witness ==
    /\ eval.result # None
    /\ eval.x = Number(0)
    /\ eval.y = Array(<<>>)
    /\ eval.expr = And(Field("x"), Field("y"))
    /\ eval.result[1] = Array(<<>>)

\* ------------------------------------------------------- runner liveness
\* the runner loop with add_task, cancel_task and clear_task called from
\* outside, and no stop
RunnerLiveNext ==
    \/ RunnerStep
    \/ \E h \in HandlerIds : RegisterNode(h)
    \/ \E h \in HandlerIds, qos \in QualityOfService :
          AddTask(h, qos, "Pending", TRUE)
    \/ \E id \in 1..MaxAdd : CancelTask(id)
    \/ ClearTask

RunnerLiveSpec == Init /\ [][RunnerLiveNext]_vars /\ WF_vars(RunnerStep)

\* the ids of the PendingTasks the queue holds
QueuedIds == UNION {{p.id : p \in lists[h]} : h \in index_tasks}

\* the loop is parked in notifier.changed() and no unseen value is there
RunnerWaiting == runner = "wait" /\ ~notifier.changed

\* C25: the loop never goes back to waiting while the queue still holds a
\* pending task (a task that is queued and stored), so every task added
\* gets its result without a further external call.
C25_NeverWaitsOnPending == RunnerWaiting => QueuedIds \cap DOMAIN store = {}

\* ------------------------------------------------ queue and store in step
\* C26: the queue holds a PendingTask with id i exactly when the store holds
\* the task with id i, and it holds at most one PendingTask per id.
C26_QueueStoreInStep ==
    /\ QueuedIds = DOMAIN store
    /\ \A h1 \in index_tasks, h2 \in index_tasks :
          \A p1 \in lists[h1], p2 \in lists[h2] :
              p1.id = p2.id => (h1 = h2 /\ p1 = p2)

\* --------------------------------------------- single execution and order
\* no connection is held twice
SimpleEdges == \A a \in NodeIds, b \in NodeIds : Count(Children(a), b) <= 1

\* C27: in a run over an acyclic workflow (each connection made once) every
\* node's execute is invoked at most once, also when the node is reachable
\* from a start node by several paths.
C27_SingleExecution ==
    (~Cyclic /\ SimpleEdges) => \A id \in NodeIds : Executions(id) <= 1

\* the parents of the node that are defined and enabled
EnabledParents(id) ==
    {pid \in NodeIds : /\ Edge(pid, id)
                       /\ pid \in DOMAIN wf_nodes
                       /\ ~wf_nodes[pid].disabled}

\* C28: in a run over an acyclic workflow a node is executed only after
\* every one of its enabled parents has been executed.
C28_TopologicalOrder ==
    ~Cyclic
    => \A i \in 1..Len(exec_log) :
          \A pid \in EnabledParents(exec_log[i].node) :
              \E j \in 1..(i - 1) : exec_log[j].node = pid

\* ----------------------------------------------- add_task, step by step
\* add_task sending the notification first
AddTaskOrderNotifyFirst == <<"notify", "push", "insert">>

\* the statements of add_task after the is_done guard (lines 160-162)
AddTaskOrder == <<"push", "insert", "notify">>

\* a call of add_task is between its guard and its return; it holds the
\* dispatcher's write lock
InAddTask == eval # None /\ eval.pc <= Len(AddTaskOrder)

\* add_task(Task::new(h, next_task_id(), content, qos)) up to the guard
AddTaskCall(h, qos) ==
    /\ ~InAddTask
    /\ Unlocked
    /\ task_id_counter <= MaxAdd
    /\ eval' = [task |-> NewTask(h, task_id_counter, qos), pc |-> 1,
                notified |-> FALSE]
    /\ task_id_counter' = task_id_counter + 1
    /\ results' = Append(results, <<>>)
    /\ UNCHANGED <<qvars, store, handlers, notifier, inflight, runner,
                   executed, cancel_called, accepted, taken, stop_called,
                   unknown, drained, obs, ids, counter_hi, wfvars>>

\* the next statement of the call
AddTaskStep ==
    /\ InAddTask
    /\ LET stmt == AddTaskOrder[eval.pc]
           task == eval.task
       IN  /\ IF stmt = "push" THEN SetQueue(QueuePush(TheQueue, task))
              ELSE UNCHANGED qvars
           /\ IF stmt = "insert" THEN store' = Insert(store, task.id, task)
              ELSE UNCHANGED store
           /\ IF stmt = "notify" THEN Notify ELSE UNCHANGED notifier
           /\ eval' = [eval EXCEPT !.pc = @ + 1,
                                   !.notified = @ \/ stmt = "notify"]
           /\ accepted' = IF eval.pc = Len(AddTaskOrder)
                          THEN accepted \cup {task.id} ELSE accepted
    /\ UNCHANGED <<task_id_counter, handlers, inflight, runner, results,
                   executed, cancel_called, taken, stop_called, unknown,
                   drained, obs, ids, counter_hi, wfvars>>

\* the runner: changed() and borrow() read the receiver; run's first lines
\* and process_next_task need the dispatcher's lock
AddTaskRunner ==
    \/ RunnerChanged
    \/ RunnerCheck
    \/ ~InAddTask /\ RunnerStart
    \/ ~InAddTask /\ RunnerProcess
    \/ \E o \in Outcomes : ExecuteReturns(o)

AddTaskNext ==
    \/ \E h \in HandlerIds, qos \in QualityOfService : AddTaskCall(h, qos)
    \/ AddTaskStep
    \/ AddTaskRunner
    \/ \E h \in HandlerIds : ~InAddTask /\ RegisterNode(h)

AddTaskSpec == Init /\ [][AddTaskNext]_vars

\* C29: when add_task sends its notification, the queue push and the store
\* insert of the task are complete: the task is in the queue and in the
\* store, so process_next_task, which needs the lock add_task still holds,
\* finds it in both.
C29_AddTaskOrdering ==
    [][(eval # None /\ ~eval.notified /\ eval'.notified)
       => /\ eval.task.id \in QueuedIds /\ eval.task.id \in DOMAIN store
          /\ eval.task.id \in QueuedIds' /\ eval.task.id \in DOMAIN store'
          /\ notifier'.changed /\ ~notifier'.value]_vars

\* the runner, woken by the notification of add_task, has taken the task out
\* of the queue and the store
C29_Witness ==
    /\ eval # None
    /\ eval.notified
    /\ eval.task.id \in accepted
    /\ inflight # None
    /\ inflight[1].id = eval.task.id

\* ------------------------------------------------------ cancel_task frame
\* the program's state but the store: queue, id counter, handlers, watch
\* channel, pending execute, runner position and result channels
ButStore ==
    <<qvars, task_id_counter, handlers, notifier, inflight, runner, results>>

\* C30: cancel_task(id) changes nothing except the state of task id in the
\* store, which becomes Cancel; it removes nothing from the queue or the
\* store and sends no result; when id is not in the store it changes nothing.
C30_CancelTaskFrame ==
    [][\A id \in 1..MaxAdd :
          CancelTask(id)
          => /\ UNCHANGED ButStore
             /\ DOMAIN store' = DOMAIN store
             /\ \A j \in DOMAIN store :
                   store'[j] = IF j = id THEN [store[j] EXCEPT !.state = "Cancel"]
                               ELSE store[j]
             /\ id \notin DOMAIN store => UNCHANGED store]_vars

\* a queued task was cancelled: it is still queued and stored, in state
\* Cancel, and nothing was sent for it
C30_Witness ==
    \E id \in cancel_called :
        /\ id \in DOMAIN store
        /\ id \in QueuedIds
        /\ store[id].state = "Cancel"
        /\ results[id] = <<>>

\* ------------------------------------------- result map and disabled nodes
\* the nodes run has executed
Executed == {exec_log[i].node : i \in 1..Len(exec_log)}

\* the enabled nodes no connection leads to
EnabledRoots ==
    {id \in DOMAIN wf_nodes :
        ~wf_nodes[id].disabled /\ ~\E pid \in NodeIds : Edge(pid, id)}

\* C31: when run succeeds the returned map has an entry for exactly the
\* executed nodes; a disabled node is never executed and never in the map;
\* the start set is exactly the enabled nodes with no parents, and without
\* such a node run returns the empty map and executes nothing.
C31_ResultMapAndDisabled ==
    /\ [](/\ \A id \in Executed :
                id \in DOMAIN wf_nodes /\ ~wf_nodes[id].disabled
          /\ \A id \in DOMAIN run.results : ~wf_nodes[id].disabled
          /\ run.pc = "ok"
             => /\ run.ret = Some(<<"Ok", run.results>>)
                /\ DOMAIN run.results = Executed)
    /\ [][(run.pc = "idle" /\ run'.pc # "idle")
          => /\ {run'.queue[i] : i \in 1..Len(run'.queue)} = EnabledRoots
             /\ Len(run'.queue) = Cardinality(EnabledRoots)
             /\ EnabledRoots = {}
                => /\ run'.pc = "ok"
                   /\ run'.ret = Some(<<"Ok", <<>>>>)
                   /\ exec_log' = <<>>]_vars

\* a run has succeeded over a workflow with a disabled child of an executed
\* node
C31_Witness ==
    /\ run.pc = "ok"
    /\ \E a \in Executed, b \in DOMAIN wf_nodes :
          /\ Edge(a, b)
          /\ wf_nodes[b].disabled
          /\ b \notin DOMAIN run.results

\* ---------------------------------------------------------- DirectedGraph
MaxGraphEdges == 3

GraphNames == {"TaskA", "TaskB", "TaskC"}

Reverse(q) == [i \in 1..Len(q) |-> q[Len(q) + 1 - i]]

\* petgraph Graph::add_node: the weight goes to the end of the node vector
GraphAddNode(g, weight) == [g EXCEPT !.nodes = Append(@, weight)]

\* petgraph Graph::add_edge
GraphAddEdge(g, a, b) == [g EXCEPT !.edges = Append(@, <<a, b>>)]

\* petgraph Graph::remove_node: the edges of the node go, the last node
\* takes the removed node's index, and its edges follow it
GraphRemoveNode(g, idx) ==
    LET last == Len(g.nodes)
        kept == SelectSeq(g.edges, LAMBDA e : e[1] # idx /\ e[2] # idx)
        moved(i) == IF i = last THEN idx ELSE i
        front == SubSeq(g.nodes, 1, last - 1)
    IN  [nodes |-> IF idx = last THEN front
                   ELSE [front EXCEPT ![idx] = g.nodes[last]],
         edges |-> [i \in 1..Len(kept) |-> <<moved(kept[i][1]), moved(kept[i][2])>>]]

\* petgraph neighbors_directed(idx, Outgoing) / neighbors(idx): the targets
\* of the node's edges, the newest edge first
Outgoing(g, idx) ==
    LET out == SelectSeq(g.edges, LAMBDA e : e[1] = idx)
    IN  Reverse([i \in 1..Len(out) |-> out[i][2]])

\* petgraph neighbors_directed(idx, Incoming)
Incoming(g, idx) ==
    LET in == SelectSeq(g.edges, LAMBDA e : e[2] = idx)
    IN  Reverse([i \in 1..Len(in) |-> in[i][1]])

\* DirectedGraph::index_to_name
index_to_name(ni, idx) ==
    IF \E n \in DOMAIN ni : ni[n] = idx
    THEN Some(CHOOSE n \in DOMAIN ni : ni[n] = idx)
    ELSE None

\* .filter_map(|i| self.index_to_name(i)).collect()
RECURSIVE Names(_, _)
Names(ni, idxs) ==
    IF idxs = <<>> THEN <<>>
    ELSE LET n == index_to_name(ni, Head(idxs))
         IN  (IF n = None THEN <<>> ELSE <<n[1]>>) \o Names(ni, Tail(idxs))

\* DirectedGraph::add_connection
add_connection(g, ni, from, to) ==
    IF from \in DOMAIN ni /\ to \in DOMAIN ni
    THEN GraphAddEdge(g, ni[from], ni[to])
    ELSE g

\* remove_node without the repair of the swapped node's index
RepairNone(ni, idx, last_index, node_count) == ni

\* remove_node lines 68-76: the name stored at last_index now goes to idx
Repair(ni, idx, last_index, node_count) ==
    IF idx # last_index /\ node_count > 0
    THEN [n \in DOMAIN ni |-> IF ni[n] = last_index THEN idx ELSE ni[n]]
    ELSE ni

\* remove_node lines 79-83: parent -> child for every pair
RECURSIVE Bridge(_, _, _, _)
Bridge(g, ni, pairs, k) ==
    IF k > Len(pairs) THEN g
    ELSE Bridge(add_connection(g, ni, pairs[k][1], pairs[k][2]), ni, pairs, k + 1)

Pairs(parent_names, child_names) ==
    [k \in 1..(Len(parent_names) * Len(child_names)) |->
        <<parent_names[((k - 1) \div Len(child_names)) + 1],
          child_names[((k - 1) % Len(child_names)) + 1]>>]

\* DirectedGraph::remove_node: <<graph, node_indices>> after the call
remove_node(g, ni, name) ==
    IF name \notin DOMAIN ni THEN <<g, ni>>
    ELSE LET idx == ni[name]
             parent_names == Names(ni, Incoming(g, idx))
             child_names == Names(ni, Outgoing(g, idx))
             last_index == Len(g.nodes)
             g1 == GraphRemoveNode(g, idx)
             ni1 == Repair(Remove(ni, name), idx, last_index, Len(g1.nodes))
         IN  <<Bridge(g1, ni1, Pairs(parent_names, child_names), 1), ni1>>

\* topological_sort lines 232-240: one more for each edge into the name
InDegree(g, ni) ==
    [n \in DOMAIN ni |->
        Cardinality({c \in (DOMAIN ni) \X (1..Len(g.edges)) :
                        /\ g.edges[c[2]][1] = ni[c[1]]
                        /\ index_to_name(ni, g.edges[c[2]][2]) = Some(n)})]

\* topological_sort lines 254-262 for one popped node: <<in_degree, queue>>
RECURSIVE Relax(_, _, _)
Relax(in_degree, q, child_names) ==
    IF child_names = <<>> THEN <<in_degree, q>>
    ELSE LET c == Head(child_names)
             counter == in_degree[c] - 1
         IN  Relax([in_degree EXCEPT ![c] = counter],
                   IF counter = 0 THEN Append(q, c) ELSE q,
                   Tail(child_names))

\* topological_sort lines 250-264
RECURSIVE KahnLoop(_, _, _, _, _)
KahnLoop(g, ni, in_degree, q, result) ==
    IF q = <<>> THEN result
    ELSE LET node_name == Head(q)
             r == IF node_name \in DOMAIN ni
                  THEN Relax(in_degree, Tail(q),
                             Names(ni, Outgoing(g, ni[node_name])))
                  ELSE <<in_degree, Tail(q)>>
         IN  KahnLoop(g, ni, r[1], r[2], Append(result, node_name))

\* the test that takes a short result for a complete one
SortResultAlwaysOk(result, count) == Ok(result)

\* topological_sort lines 266-269
SortResult(result, count) ==
    IF Len(result) < count THEN Err("Graph has a cycle") ELSE Ok(result)

\* DirectedGraph::topological_sort, the names of in-degree 0 taken in the
\* order start (the HashMap's)
topological_sort(g, ni, start) ==
    SortResult(KahnLoop(g, ni, InDegree(g, ni), start, <<>>),
               Cardinality(DOMAIN ni))

\* petgraph is_cyclic_directed: some node reaches itself
RECURSIVE IndexReaches(_, _, _, _)
IndexReaches(g, a, b, n) ==
    /\ n > 0
    /\ \E i \in 1..Len(g.edges) :
          /\ g.edges[i][1] = a
          /\ \/ g.edges[i][2] = b
             \/ IndexReaches(g, g.edges[i][2], b, n - 1)

\* DirectedGraph::is_dag
is_dag(g) == ~\E i \in 1..Len(g.nodes) : IndexReaches(g, i, i, Len(g.nodes))

\* graph.add_node(name, data), the data carrying the name
DgAddNode(name) ==
    /\ name \notin DOMAIN node_indices
    /\ graph' = GraphAddNode(graph, name)
    /\ node_indices' = Insert(node_indices, name, Len(graph.nodes) + 1)
    /\ topo' = None
    /\ bridged' = {}
    /\ UNCHANGED <<qvars, task_id_counter, dvars, obs, ids, counter_hi, eval,
                   wf_nodes, conn_src, conn_dst, wf_mapping, run, exec_log>>

\* graph.add_connection(from, to)
DgAddConnection(from, to) ==
    /\ Len(graph.edges) < MaxGraphEdges
    /\ graph' = add_connection(graph, node_indices, from, to)
    /\ topo' = None
    /\ bridged' = {}
    /\ UNCHANGED <<qvars, task_id_counter, dvars, obs, ids, counter_hi, eval,
                   wf_nodes, conn_src, conn_dst, wf_mapping, run, exec_log,
                   node_indices>>

\* graph.remove_node(name)
DgRemoveNode(name) ==
    /\ LET r == remove_node(graph, node_indices, name)
       IN  graph' = r[1] /\ node_indices' = r[2]
    /\ bridged' = IF /\ name \in DOMAIN node_indices
                     /\ Incoming(graph, node_indices[name]) # <<>>
                     /\ Outgoing(graph, node_indices[name]) # <<>>
                  THEN bridged \cup {name} ELSE bridged
    /\ topo' = None
    /\ UNCHANGED <<qvars, task_id_counter, dvars, obs, ids, counter_hi, eval,
                   wf_nodes, conn_src, conn_dst, wf_mapping, run, exec_log>>

\* graph.topological_sort()
DgTopologicalSort ==
    /\ topo = None
    /\ \E start \in Orders({n \in DOMAIN node_indices :
                              InDegree(graph, node_indices)[n] = 0}) :
          topo' = Some(topological_sort(graph, node_indices, start))
    /\ UNCHANGED <<qvars, task_id_counter, dvars, obs, ids, counter_hi, eval,
                   wf_nodes, conn_src, conn_dst, wf_mapping, run, exec_log,
                   graph, node_indices, bridged>>

DgNext ==
    \/ \E name \in GraphNames : DgAddNode(name)
    \/ \E from \in GraphNames, to \in GraphNames : DgAddConnection(from, to)
    \/ \E name \in GraphNames : DgRemoveNode(name)
    \/ DgTopologicalSort

DgSpec == Init /\ [][DgNext]_vars

\* the graph has an edge between the nodes the two names stand for
NamedEdge(g, ni, a, b) ==
    /\ a \in DOMAIN ni
    /\ b \in DOMAIN ni
    /\ \E i \in 1..Len(g.edges) : g.edges[i] = <<ni[a], ni[b]>>

\* every name resolves to the node that carries its data
NamesValid(g, ni) ==
    \A n \in DOMAIN ni : ni[n] \in 1..Len(g.nodes) /\ g.nodes[ni[n]] = n

\* C32: after remove_node(n), n is gone, every remaining name still resolves
\* to its own node data, every edge not touching n is preserved, and each
\* former parent of n has an edge to each former child of n.
C32_RemoveNodeBridges ==
    /\ [](NamesValid(graph, node_indices)
          /\ Len(graph.nodes) = Cardinality(DOMAIN node_indices))
    /\ [][\A n \in DOMAIN node_indices :
            DgRemoveNode(n)
            => /\ DOMAIN node_indices' = DOMAIN node_indices \ {n}
               /\ \A a \in DOMAIN node_indices', b \in DOMAIN node_indices' :
                     /\ NamedEdge(graph, node_indices, a, b)
                        => NamedEdge(graph', node_indices', a, b)
                     /\ (/\ NamedEdge(graph, node_indices, a, n)
                         /\ NamedEdge(graph, node_indices, n, b))
                        => NamedEdge(graph', node_indices', a, b)
                     /\ NamedEdge(graph', node_indices', a, b)
                        => \/ NamedEdge(graph, node_indices, a, b)
                           \/ /\ NamedEdge(graph, node_indices, a, n)
                              /\ NamedEdge(graph, node_indices, n, b)]_vars

\* TaskA was removed from between TaskC and TaskB while it was not the last
\* node: TaskC -> TaskB is there and both names resolve
C32_Witness ==
    /\ "TaskA" \in bridged
    /\ graph.nodes = <<"TaskC", "TaskB">>
    /\ NamedEdge(graph, node_indices, "TaskC", "TaskB")
    /\ graph.edges = <<<<1, 2>>>>

\* the position of the name in the sorted list
Position(list, n) == CHOOSE i \in 1..Len(list) : list[i] = n

\* the names no edge leads to
Roots(g, ni) ==
    {n \in DOMAIN ni : ~\E i \in 1..Len(g.edges) : g.edges[i][2] = ni[n]}

\* C33: on an acyclic graph topological_sort returns Ok with every name
\* exactly once and every edge's source before its target, an only root
\* first; it returns Err("Graph has a cycle") exactly when the graph has a
\* cycle, agreeing with is_dag(); parallel edges make no difference.
C33_TopologicalSort ==
    topo # None
    => LET r == topo[1]
           names == DOMAIN node_indices
       IN  /\ (r[1] = "Ok") <=> is_dag(graph)
           /\ r[1] = "Err" => r = Err("Graph has a cycle")
           /\ r[1] = "Ok"
              => /\ Len(r[2]) = Cardinality(names)
                 /\ {r[2][i] : i \in 1..Len(r[2])} = names
                 /\ \A a \in names, b \in names :
                       NamedEdge(graph, node_indices, a, b)
                       => Position(r[2], a) < Position(r[2], b)
                 /\ \A n \in names :
                       Roots(graph, node_indices) = {n} => r[2][1] = n

\* a sort has succeeded on a graph that holds a parallel edge made by the
\* bridging of remove_node
C33_Witness ==
    /\ topo # None
    /\ topo[1][1] = "Ok"
    /\ bridged # {}
    /\ Len(topo[1][2]) = 2
    /\ \E i, j \in 1..Len(graph.edges) : i # j /\ graph.edges[i] = graph.edges[j]

\* ------------------------------------------------------------ Orchestrator
MaxOrch == 2

\* Orchestrator::new(TaskQueue::new(), TaskStore::new()); eval holds the
\* position of run_all and the returns of process_one, in order
OrchInit ==
    /\ InitButEval
    /\ eval = [pc |-> "idle", returned |-> <<>>]

\* Orchestrator::add_task
OrchAddTask(h, qos) ==
    /\ eval.pc = "idle"
    /\ task_id_counter <= MaxOrch
    /\ LET new_id == task_id_counter
           task == NewTask(h, new_id, qos)
       IN  /\ store' = Insert(store, task.id, task)
           /\ SetQueue(QueuePush(TheQueue, task))
           /\ accepted' = accepted \cup {new_id}
    /\ task_id_counter' = task_id_counter + 1
    /\ UNCHANGED <<handlers, notifier, inflight, runner, results, executed,
                   cancel_called, taken, stop_called, unknown, drained, obs,
                   other>>

\* process_one leaving the task in the store
ProcessOneStoreKeep(st, task_id) == st

\* process_one line 40: self.store.remove_task(&task_id)
ProcessOneStore(st, task_id) == Remove(st, task_id)

\* Orchestrator::process_one; pc is where the caller goes on a return of
\* Some and of None
process_one(some_pc, none_pc) ==
    /\ LET r == QueueMutHead(TheQueue)
       IN  /\ SetQueue(r[3])
           /\ IF r[1] = None
              THEN /\ UNCHANGED store
                   /\ eval' = [pc |-> none_pc,
                               returned |-> Append(eval.returned, None)]
              ELSE /\ store' = ProcessOneStore(store, r[1][1].id)
                   /\ eval' = [pc |-> some_pc,
                               returned |-> Append(eval.returned,
                                                   Some(r[1][1].id))]
    /\ UNCHANGED <<task_id_counter, handlers, notifier, inflight, runner,
                   results, executed, cancel_called, accepted, taken,
                   stop_called, unknown, drained, obs, ids, counter_hi, wfvars>>

\* orch.process_one() called on its own
OrchProcessOne ==
    /\ eval.pc = "idle"
    /\ Len(eval.returned) <= MaxOrch
    /\ process_one("idle", "idle")

\* orch.run_all() is called
OrchRunAll ==
    /\ eval.pc = "idle"
    /\ Len(eval.returned) <= MaxOrch
    /\ eval' = [eval EXCEPT !.pc = "run_all"]
    /\ UNCHANGED <<qvars, task_id_counter, dvars, obs, ids, counter_hi, wfvars>>

\* while self.process_one().is_some() {}: one turn
OrchRunAllStep ==
    /\ eval.pc = "run_all"
    /\ process_one("run_all", "idle")

OrchNext ==
    \/ \E h \in HandlerIds, qos \in QualityOfService : OrchAddTask(h, qos)
    \/ OrchProcessOne
    \/ OrchRunAll
    \/ OrchRunAllStep

\* run_all is a loop of the calling thread: it keeps running
OrchSpec == OrchInit /\ [][OrchNext]_vars /\ WF_vars(OrchRunAllStep)

\* the ids process_one has returned
ReturnedIds ==
    {eval.returned[i][1] : i \in {j \in 1..Len(eval.returned) :
                                     eval.returned[j] # None}}

\* C34: add_task returns distinct ids from 1 on; run_all terminates; each
\* process_one returns the id of one added task, no id twice; when run_all
\* returns, every added id has been returned and the queue and the store
\* are empty, so process_one returns None.
C34_OrchestratorDrain ==
    /\ [](/\ accepted = 1..(task_id_counter - 1)
          /\ ReturnedIds \subseteq accepted
          /\ \A i, j \in 1..Len(eval.returned) :
                (eval.returned[i] # None /\ eval.returned[i] = eval.returned[j])
                => i = j
          /\ DOMAIN store = accepted \ ReturnedIds
          /\ QueuedIds = DOMAIN store)
    /\ [][(eval.pc = "run_all" /\ eval'.pc = "idle")
          => /\ queue' = <<>> /\ index_tasks' = {} /\ QueuedIds' = {}
             /\ store' = <<>>
             /\ ReturnedIds' = accepted'
             /\ QueueMutHead([index_tasks |-> index_tasks', queue |-> queue',
                              lists |-> lists'])[1] = None]_vars
    /\ (eval.pc = "run_all") ~> (eval.pc = "idle")

\* run_all has drained two tasks and returned
C34_Witness ==
    /\ eval.pc = "idle"
    /\ Len(eval.returned) = 3
    /\ eval.returned[3] = None
    /\ ReturnedIds = {1, 2}
    /\ store = <<>>
    /\ queue = <<>>

\* ------------------------------------------------ connect_nodes errors
\* how often target_id stands in the list the table keeps under key
Held(conn, key, target_id) ==
    IF key \in DOMAIN conn THEN Count(conn[key], target_id) ELSE 0

\* the table next differs from conn by one more target_id under key, and
\* by nothing else
OneMore(conn, next, key, target_id) ==
    /\ DOMAIN next = DOMAIN conn \cup {key}
    /\ \A k \in DOMAIN conn \ {key} : next[k] = conn[k]
    /\ Len(next[key]) = (IF key \in DOMAIN conn THEN Len(conn[key]) ELSE 0) + 1
    /\ next[key][Len(next[key])] = target_id
    /\ \A i \in 1..(Len(next[key]) - 1) : next[key][i] = conn[key][i]

\* C35: connect_nodes(source, target) returns Err when source or target is
\* not a key of nodes and then leaves connections_by_source and
\* connections_by_destination as they were (nodes is never touched); it
\* returns Ok, and adds the edge to both tables, only when both ends exist.
C35_ConnectNodesError ==
    /\ [](\A s, t \in NodeIds :
            LET r == connect_nodes(wf_nodes, conn_src, conn_dst, s, t)
            IN  IF s \in DOMAIN wf_nodes /\ t \in DOMAIN wf_nodes
                THEN /\ r.ret[1] = "Ok"
                     /\ OneMore(conn_src, r.by_source, s, t)
                     /\ OneMore(conn_dst, r.by_destination, t, s)
                ELSE /\ r.ret[1] = "Err"
                     /\ r.by_source = conn_src
                     /\ r.by_destination = conn_dst)
    /\ [][(wf_nodes' = wf_nodes /\ TotalEdges' > TotalEdges)
             => \E s, t \in DOMAIN wf_nodes :
                   /\ OneMore(conn_src, conn_src', s, t)
                   /\ OneMore(conn_dst, conn_dst', t, s)]_vars

\* a workflow that holds an edge made by connect_nodes, and lacks a node, so
\* that a further connect_nodes to the missing node is refused
C35_Witness ==
    /\ run.pc = "idle"
    /\ \E s, t \in DOMAIN wf_nodes, m \in NodeIds \ DOMAIN wf_nodes :
          /\ Held(conn_src, s, t) = 1 /\ Held(conn_dst, t, s) = 1
          /\ connect_nodes(wf_nodes, conn_src, conn_dst, s, m).ret[1] = "Err"
          /\ connect_nodes(wf_nodes, conn_src, conn_dst, m, t).ret[1] = "Err"

\* ------------------------------------------- apply_mapping_template total
\* C36: for every merged_input (object, array of a multi-parent fan-in,
\* string, number, bool, null), every parameters value and every template,
\* apply_mapping_template returns Ok or Err: it never panics.
C36_MappingTotal ==
    eval.result # None => eval.result[1][1] \in {"Ok", "Err"}
====
